---- MODULE Spec2Model ----
(***************************************************************************)
(* Model of home-assistant-flic-integration.js (the universal iteration,   *)
(* lines 873-2872): the debounced device-update pipeline, the playback     *)
(* cooldown gate, the colour memory and the handlers that use them.        *)
(*                                                                         *)
(* Time is the value of Date.now() in milliseconds.  Every await on the    *)
(* remote API is a task parked in `tasks` until the response arrives; the  *)
(* code between two awaits runs as one step (single-threaded event loop).  *)
(*                                                                         *)
(* Number representation.  The normalized floats of the controller         *)
(* (`values.*`, all 0-1) are integers in thousandths (Scale); a virtual    *)
(* device field is kept as the numerator of the fraction the code writes   *)
(* (volume n/100, brightness n/255, hue/saturation/colorTemperature        *)
(* n/1000).  Undef (-1) stands for JavaScript `undefined`.                 *)
(***************************************************************************)
EXTENDS Integers, Sequences, FiniteSets, TLC

\* ---------------------------------------------------------------- bounds
MaxTimeouts == 3      \* setTimeout ids handed out by debouncedDeviceUpdate
MaxHandlers == 2      \* handler invocations that reach an await
MaxTicks == 4        \* steps of TimeStep explored from the start of an epoch
MaxIdle == 1          \* long idle periods (one cooldown window each)
MaxTwists == 1        \* volume twists explored next to playback gestures
MaxBusyTicks == 2     \* the same, where idle periods are explored too
MaxColorTwists == 2   \* twists of the colour strip

\* ------------------------------------------------------ program constants
DEBOUNCE_DELAY == 100
PLAYBACK_COOLDOWN_MS == 2500
MEANINGFUL_SATURATION_THRESHOLD == 5
SETTLE_DELAY == 100
Scale == 1000
Undef == -1

\* Date.now() when the script starts: far more than one cooldown window
\* after the epoch, so the gate is open at start.
StartTime == PLAYBACK_COOLDOWN_MS
TimeStep == DEBOUNCE_DELAY \div 2

\* ------------------------------------------------------------ device table
Devices == {"livingroom_tv", "bedroom_speaker", "playback_control",
            "living_room_light", "kitchen_color_light",
            "living_room_thermostat", "bedroom_ac", "living_room_blinds"}

DeviceType(d) ==
    CASE d = "livingroom_tv" -> "media_player"
      [] d = "bedroom_speaker" -> "media_player"
      [] d = "playback_control" -> "playback"
      [] d = "living_room_light" -> "light"
      [] d = "kitchen_color_light" -> "color_light"
      [] d = "living_room_thermostat" -> "climate"
      [] d = "bedroom_ac" -> "climate"
      [] d = "living_room_blinds" -> "blind"

EntityId(d) ==
    CASE d = "livingroom_tv" -> "media_player.living_room_tv"
      [] d = "bedroom_speaker" -> "media_player.bedroom_speaker"
      [] d = "playback_control" -> "media_player.living_room_tv"
      [] d = "living_room_light" -> "light.living_room_ceiling"
      [] d = "kitchen_color_light" -> "light.kitchen_color_strip"
      [] d = "living_room_thermostat" -> "climate.living_room"
      [] d = "bedroom_ac" -> "climate.bedroom_ac"
      [] d = "living_room_blinds" -> "cover.living_room_blinds"

\* device.tempRange of the climate devices, in degrees Celsius
TempMin(d) == IF d = "bedroom_ac" THEN 18 ELSE 16
TempMax(d) == IF d = "bedroom_ac" THEN 28 ELSE 30

Entities == {EntityId(d) : d \in Devices}
MediaEntities == {EntityId(d) : d \in {"livingroom_tv", "bedroom_speaker"}}
ClimateEntities == {EntityId(d) : d \in {"living_room_thermostat", "bedroom_ac"}}
LightEntities == {EntityId(d) : d \in {"living_room_light", "kitchen_color_light"}}

\* --------------------------------------------------------------- helpers
Min(a, b) == IF a <= b THEN a ELSE b
Max(a, b) == IF a >= b THEN a ELSE b
Clamp(lo, hi, x) == Max(lo, Min(hi, x))
Abs(x) == IF x < 0 THEN -x ELSE x

\* Math.round(num / den) for num >= 0, den > 0 (halves round up)
RoundDiv(num, den) == (2 * num + den) \div (2 * den)

MapSet(m, k, v) == [x \in DOMAIN m \cup {k} |-> IF x = k THEN v ELSE m[x]]
MapDelete(m, k) == [x \in DOMAIN m \ {k} |-> m[x]]
EmptyMap == [x \in {} |-> 0]

VARIABLES
    now,                      \* Date.now()
    lastPlaybackCommandTime,  \* cooldown timestamp
    pendingUpdates,           \* Map key -> {timeoutId, updateData}
    expectedStates,           \* Map key -> updateData
    colorMemory,              \* Map deviceId -> {hue, saturation}
    timers,                   \* armed setTimeout callbacks: id -> record
    nextTimeoutId,            \* next id setTimeout returns
    nextHandlerId,            \* identity of the next suspended handler invocation
    tasks,                    \* suspended async invocations: id -> record
    remote,                   \* Home Assistant entity states
    virtual,                  \* flicApp virtual device states
    calls,                    \* history: debouncedDeviceUpdate calls
    applied,                  \* history: updateFunction invocations
    localWrites,              \* history: immediateStateUpdate invocations
    lastFired,                \* history: arrival time of the last gesture that passed the gate
    lastFiredBy,              \* history: device of that gesture
    lastEvent,                \* history: what the most recent handler step did
    lastColor                 \* history: the last colour applyColorUpdate computed
                              \* (recalled: what getRememberedColor returned, if called)

vars == <<now, lastPlaybackCommandTime, pendingUpdates, expectedStates,
          colorMemory, timers, nextTimeoutId, nextHandlerId, tasks, remote, virtual,
          calls, applied, localWrites, lastFired, lastFiredBy, lastEvent, lastColor>>

progVars == <<lastPlaybackCommandTime, pendingUpdates, expectedStates,
              colorMemory, timers, nextTimeoutId, nextHandlerId, tasks, remote, virtual>>
histVars == <<calls, applied, localWrites, lastFired, lastFiredBy, lastEvent, lastColor>>


\* ------------------------------------------------------------ remote side
\* State of one Home Assistant entity as GET /api/states/<entity> reports it.
\* volume_level is in hundredths, brightness 0..255, hs_color <<hue, sat>>
\* or <<>> when the attribute is absent, color_temp in mireds, temperature in
\* tenths of a degree, current_position of a cover in percent.
EntityState(state, volume, brightness, hs) ==
    [state |-> state, volume_level |-> volume, brightness |-> brightness, hs_color |-> hs,
     color_temp |-> Undef, temperature |-> Undef, current_position |-> Undef]

ClimateState(state, temperature) ==
    [EntityState(state, Undef, Undef, <<>>) EXCEPT !.temperature = temperature]

\* A service call POST /api/services/<domain>/<service> with its data.
ServiceCall(d, domain, service, field, value) ==
    [entity |-> EntityId(d), domain |-> domain, service |-> service,
     field |-> field, value |-> value]

NoCall == [entity |-> "none", domain |-> "none", service |-> "none",
           field |-> "none", value |-> Undef]

\* What an accepted service call does to the entity it names.
RemoteApply(r, c) ==
    LET e == c.entity IN
    CASE c.service = "volume_set" -> [r EXCEPT ![e].volume_level = c.value]
      [] c.service = "media_pause" -> [r EXCEPT ![e].state = "paused"]
      [] c.service = "media_play" -> [r EXCEPT ![e].state = "playing"]
      [] c.service = "media_next_track" -> [r EXCEPT ![e].state = "playing"]
      [] c.service = "turn_off" -> [r EXCEPT ![e].state = "off", ![e].brightness = Undef]
      [] c.service = "set_temperature" -> [r EXCEPT ![e].temperature = c.value]
      [] c.service = "set_cover_position" ->
            [r EXCEPT ![e].current_position = c.value,
                      ![e].state = IF c.value = 0 THEN "closed" ELSE "open"]
      [] c.service = "turn_on" /\ c.field = "brightness" ->
            [r EXCEPT ![e].state = "on", ![e].brightness = c.value]
      [] c.service = "turn_on" /\ c.field = "hs_color" ->
            [r EXCEPT ![e].state = "on", ![e].hs_color = c.value]
      [] c.service = "turn_on" /\ c.field = "color_temp" ->
            [r EXCEPT ![e].state = "on", ![e].color_temp = c.value]
      [] OTHER -> r

\* ------------------------------------------------------- virtual devices
SpeakerState(volume) == [volume |-> volume]
\* Blind state: position, kept for a climate device as tenths of a degree
\* above the device's minimum (the numerator of (t - min) / (max - min)) and
\* for a blind in percent (the numerator of position / 100).
BlindState(position) == [position |-> position]
LightState(brightness, hue, saturation, colorTemperature) ==
    [brightness |-> brightness, hue |-> hue, saturation |-> saturation,
     colorTemperature |-> colorTemperature]

\* `x || dflt` on a controller value: undefined and 0 are both falsy
OrDefault(x, dflt) == IF x = Undef \/ x = 0 THEN dflt ELSE x

\* ------------------------------------------------------------ colour memory
\* Variant without the saturation test: every colour is stored.
rememberColor_noThreshold(mem, deviceId, hue, saturation) ==
    MapSet(mem, deviceId, [hue |-> hue, saturation |-> saturation])

\* rememberColor: store only when saturation > MEANINGFUL_SATURATION_THRESHOLD
rememberColor(mem, deviceId, hue, saturation) ==
    IF saturation > MEANINGFUL_SATURATION_THRESHOLD
    THEN MapSet(mem, deviceId, [hue |-> hue, saturation |-> saturation])
    ELSE mem

\* Variant that ignores the memory and always answers with the fallback.
getRememberedColor_fallbackOnly(mem, deviceId, fallbackHue, fallbackSat) ==
    [hue |-> IF fallbackHue = Undef THEN 0 ELSE fallbackHue,
     saturation |-> IF fallbackSat = Undef THEN 100 ELSE fallbackSat]

\* getRememberedColor: colorMemory.get(deviceId) if there is one, else the
\* fallback pair (an omitted fallback takes its default, 0 and 100).  The
\* memory is only read.
getRememberedColor(mem, deviceId, fallbackHue, fallbackSat) ==
    IF deviceId \in DOMAIN mem
    THEN mem[deviceId]
    ELSE [hue |-> IF fallbackHue = Undef THEN 0 ELSE fallbackHue,
          saturation |-> IF fallbackSat = Undef THEN 100 ELSE fallbackSat]

\* ------------------------------------------------------ colour temperature
MIREDS_MIN == 154
MIREDS_MAX == 500

\* Variant of the conversion to mireds without the offset of 154.
ColorTemperatureToMireds_noOffset(colorTemperature) ==
    RoundDiv(colorTemperature * (MIREDS_MAX - MIREDS_MIN), Scale)

\* applyColorTemperatureUpdate: Math.round(154 + colorTemperature * (500 - 154))
ColorTemperatureToMireds(colorTemperature) ==
    RoundDiv(MIREDS_MIN * Scale + colorTemperature * (MIREDS_MAX - MIREDS_MIN), Scale)

\* getCurrentBrightnessAndUpdate: clamp((mireds - 154) / (500 - 154), 0, 1),
\* held in thousandths (to the nearest thousandth); 0.5 when color_temp is
\* absent or 0.
MiredsToColorTemperature(mireds) ==
    IF mireds = Undef \/ mireds = 0 THEN Scale \div 2
    ELSE IF mireds <= MIREDS_MIN THEN 0
    ELSE IF mireds >= MIREDS_MAX THEN Scale
    ELSE RoundDiv((mireds - MIREDS_MIN) * Scale, MIREDS_MAX - MIREDS_MIN)

\* Variant that takes the reported brightness for a percentage.
ReadBackLight_percent(d, st) ==
    LET brightness == IF st.state = "on" /\ st.brightness # Undef THEN st.brightness ELSE 0
    IN  LightState(Clamp(0, 100, brightness), 0, 0, Undef)

\* The Light state getCurrentBrightnessAndUpdate writes for entity state st.
ReadBackLight(d, st) ==
    LET brightness == IF st.state = "on" /\ st.brightness # Undef THEN st.brightness ELSE 0
        b == Clamp(0, 255, brightness)
    IN  IF DeviceType(d) = "color_light" /\ st.hs_color # <<>>
        THEN LightState(b, Clamp(0, Scale, RoundDiv(st.hs_color[1] * Scale, 360)),
                        Clamp(0, Scale, RoundDiv(st.hs_color[2] * Scale, 100)),
                        MiredsToColorTemperature(st.color_temp))
        ELSE IF DeviceType(d) = "color_light"
        THEN LightState(b, 0, 0, MiredsToColorTemperature(st.color_temp))
        ELSE LightState(b, 0, 0, Undef)

\* The target temperature getCurrentTemperatureAndUpdate returns for entity
\* state st: `attributes.temperature || 20`.
CurrentTemperature(st) == OrDefault(st.temperature, 200)

\* The Blind state written for a climate device at temperature t (tenths):
\* position clamp((t - min) / (max - min), 0, 1).
ClimatePosition(d, t) ==
    BlindState(Clamp(0, (TempMax(d) - TempMin(d)) * 10, t - TempMin(d) * 10))

\* The Blind state getCurrentTemperatureAndUpdate writes for entity state st.
ReadBackClimate(d, st) == ClimatePosition(d, CurrentTemperature(st))

\* The position getCurrentBlindPositionAndUpdate returns for entity state st
\* and writes (over 100) as Blind state: current_position when reported, else
\* 100 for an open cover and 0 for any other.
CurrentBlindPosition(st) ==
    IF st.current_position # Undef THEN st.current_position
    ELSE IF st.state = "open" THEN 100 ELSE 0

\* The colour memory after getCurrentBrightnessAndUpdate has seen st.
ReadBackMemory(mem, d, st) ==
    IF DeviceType(d) = "color_light" /\ st.hs_color # <<>>
    THEN rememberColor(mem, d, st.hs_color[1], st.hs_color[2])
    ELSE mem

\* ------------------------------------------------------------- debouncing
\* `${deviceId}_${updateType}`: no update type contains an underscore, so the
\* string splits at its last underscore into exactly this pair.
Key(deviceId, updateType) == <<deviceId, updateType>>

NoImmediate == [has |-> FALSE, throws |-> FALSE, state |-> SpeakerState(Undef)]
Immediate(state) == [has |-> TRUE, throws |-> FALSE, state |-> state]
\* The same callback on a host whose virtualDeviceUpdateState throws.
ImmediateOnHost(state, hostThrows) == [has |-> TRUE, throws |-> hostThrows, state |-> state]

\* The part of the state debouncedDeviceUpdate reads and writes.
DebounceState ==
    [pendingUpdates |-> pendingUpdates, expectedStates |-> expectedStates,
     timers |-> timers, nextTimeoutId |-> nextTimeoutId, virtual |-> virtual,
     calls |-> calls, localWrites |-> localWrites]

\* clearTimeout(id): a no-op when the timer has already fired
clearTimeout(tm, id) == MapDelete(tm, id)

\* Variant in which an exception of the immediate write leaves the call before
\* pendingUpdates.set.
debouncedDeviceUpdate_throwPropagates(s, deviceId, updateType, updateData, immediateStateUpdate) ==
    LET key == Key(deviceId, updateType)
        cancelled == IF key \in DOMAIN s.pendingUpdates
                     THEN clearTimeout(s.timers, s.pendingUpdates[key].timeoutId)
                     ELSE s.timers
        timeoutId == s.nextTimeoutId
        \* history: the call before this one on the key was made less than
        \* DEBOUNCE_DELAY ago (its timer is the newest of the key and not yet due)
        quick == \E i \in DOMAIN s.timers :
                    /\ s.timers[i].key = key
                    /\ now < s.timers[i].deadline
                    /\ \A j \in 1..Len(s.calls) :
                           s.calls[j].key = key => s.calls[j].timeoutId <= i
    IN  [pendingUpdates |-> IF immediateStateUpdate.has /\ immediateStateUpdate.throws
                            THEN s.pendingUpdates
                            ELSE MapSet(s.pendingUpdates, key,
                                        [timeoutId |-> timeoutId, updateData |-> updateData]),
         expectedStates |-> MapSet(s.expectedStates, key, updateData),
         timers |-> MapSet(cancelled, timeoutId,
                           [key |-> key, updateData |-> updateData,
                            deadline |-> now + DEBOUNCE_DELAY]),
         nextTimeoutId |-> timeoutId + 1,
         virtual |-> IF immediateStateUpdate.has /\ ~immediateStateUpdate.throws
                     THEN [s.virtual EXCEPT ![deviceId] = immediateStateUpdate.state]
                     ELSE s.virtual,
         calls |-> Append(s.calls, [key |-> key, updateData |-> updateData,
                                    timeoutId |-> timeoutId, quick |-> quick,
                                    threw |-> immediateStateUpdate.has
                                                 /\ immediateStateUpdate.throws]),
         localWrites |-> IF immediateStateUpdate.has /\ ~immediateStateUpdate.throws
                         THEN Append(s.localWrites, [key |-> key, updateData |-> updateData,
                                                     state |-> immediateStateUpdate.state])
                         ELSE s.localWrites]

\* Variant that cancels every armed timer of the device, whatever its channel.
debouncedDeviceUpdate_cancelsDevice(s, deviceId, updateType, updateData, immediateStateUpdate) ==
    LET key == Key(deviceId, updateType)
        cancelled == [i \in {j \in DOMAIN s.timers : s.timers[j].key[1] # deviceId}
                         |-> s.timers[i]]
        timeoutId == s.nextTimeoutId
        \* history: the call before this one on the key was made less than
        \* DEBOUNCE_DELAY ago (its timer is the newest of the key and not yet due)
        quick == \E i \in DOMAIN s.timers :
                    /\ s.timers[i].key = key
                    /\ now < s.timers[i].deadline
                    /\ \A j \in 1..Len(s.calls) :
                           s.calls[j].key = key => s.calls[j].timeoutId <= i
    IN  [pendingUpdates |-> MapSet(s.pendingUpdates, key,
                                   [timeoutId |-> timeoutId, updateData |-> updateData]),
         expectedStates |-> MapSet(s.expectedStates, key, updateData),
         timers |-> MapSet(cancelled, timeoutId,
                           [key |-> key, updateData |-> updateData,
                            deadline |-> now + DEBOUNCE_DELAY]),
         nextTimeoutId |-> timeoutId + 1,
         virtual |-> IF immediateStateUpdate.has /\ ~immediateStateUpdate.throws
                     THEN [s.virtual EXCEPT ![deviceId] = immediateStateUpdate.state]
                     ELSE s.virtual,
         calls |-> Append(s.calls, [key |-> key, updateData |-> updateData,
                                    timeoutId |-> timeoutId, quick |-> quick,
                                    threw |-> immediateStateUpdate.has
                                                 /\ immediateStateUpdate.throws]),
         localWrites |-> IF immediateStateUpdate.has /\ ~immediateStateUpdate.throws
                         THEN Append(s.localWrites, [key |-> key, updateData |-> updateData,
                                                     state |-> immediateStateUpdate.state])
                         ELSE s.localWrites]

debouncedDeviceUpdate(s, deviceId, updateType, updateData, immediateStateUpdate) ==
    LET key == Key(deviceId, updateType)
        cancelled == IF key \in DOMAIN s.pendingUpdates
                     THEN clearTimeout(s.timers, s.pendingUpdates[key].timeoutId)
                     ELSE s.timers
        timeoutId == s.nextTimeoutId
        \* history: the call before this one on the key was made less than
        \* DEBOUNCE_DELAY ago (its timer is the newest of the key and not yet due)
        quick == \E i \in DOMAIN s.timers :
                    /\ s.timers[i].key = key
                    /\ now < s.timers[i].deadline
                    /\ \A j \in 1..Len(s.calls) :
                           s.calls[j].key = key => s.calls[j].timeoutId <= i
    IN  [pendingUpdates |-> MapSet(s.pendingUpdates, key,
                                   [timeoutId |-> timeoutId, updateData |-> updateData]),
         expectedStates |-> MapSet(s.expectedStates, key, updateData),
         timers |-> MapSet(cancelled, timeoutId,
                           [key |-> key, updateData |-> updateData,
                            deadline |-> now + DEBOUNCE_DELAY]),
         nextTimeoutId |-> timeoutId + 1,
         virtual |-> IF immediateStateUpdate.has /\ ~immediateStateUpdate.throws
                     THEN [s.virtual EXCEPT ![deviceId] = immediateStateUpdate.state]
                     ELSE s.virtual,
         calls |-> Append(s.calls, [key |-> key, updateData |-> updateData,
                                    timeoutId |-> timeoutId, quick |-> quick,
                                    threw |-> immediateStateUpdate.has
                                                 /\ immediateStateUpdate.throws]),
         localWrites |-> IF immediateStateUpdate.has /\ ~immediateStateUpdate.throws
                         THEN Append(s.localWrites, [key |-> key, updateData |-> updateData,
                                                     state |-> immediateStateUpdate.state])
                         ELSE s.localWrites]

\* Install the result of the debounce calls of one handler run.
SetDebounceState(s) ==
    /\ pendingUpdates' = s.pendingUpdates
    /\ expectedStates' = s.expectedStates
    /\ timers' = s.timers
    /\ nextTimeoutId' = s.nextTimeoutId
    /\ virtual' = s.virtual
    /\ calls' = s.calls
    /\ localWrites' = s.localWrites

\* ------------------------------------------------------------------ tasks
\* One suspended async invocation.  kind names the handler, pc the await it
\* is parked at, call the request in flight, currentTime the Date.now() the
\* handler captured on entry (kept where the handler uses it after an await).
Task(kind, dev, pc, call, key, updateData, currentTime, wake) ==
    [kind |-> kind, dev |-> dev, pc |-> pc, call |-> call, key |-> key,
     updateData |-> updateData, currentTime |-> currentTime, wake |-> wake]

NoKey == Key("none", "none")
TimerTask(timeoutId) == <<"timer", timeoutId>>
HandlerTask(n) == <<"handler", n>>
\* A handler invocation that suspends parks under a fresh identity.
Suspend(task) ==
    /\ nextHandlerId <= MaxHandlers
    /\ tasks' = MapSet(tasks, HandlerTask(nextHandlerId), task)
    /\ nextHandlerId' = nextHandlerId + 1

Event(kind, dev, outcome) == [kind |-> kind, dev |-> dev, outcome |-> outcome]


\* ------------------------------------------------------------------- Init
NoColor == [dev |-> "none", observed |-> <<>>, update |-> <<>>, remembered |-> <<>>,
            sent |-> <<>>, recalled |-> <<>>]

InitRemote ==
    [e \in Entities |->
        CASE e = "media_player.living_room_tv" -> EntityState("playing", 40, Undef, <<>>)
          [] e = "media_player.bedroom_speaker" -> EntityState("paused", 50, Undef, <<>>)
          [] e = "light.living_room_ceiling" -> EntityState("on", Undef, 128, <<>>)
          [] e = "light.kitchen_color_strip" -> EntityState("on", Undef, 200, <<120, 80>>)
          [] e = "climate.living_room" -> ClimateState("heat", 215)
          [] e = "climate.bedroom_ac" -> ClimateState("cool", 220)
          [] e = "cover.living_room_blinds" ->
                [EntityState("open", Undef, Undef, <<>>) EXCEPT !.current_position = 80]]

\* initializeVirtualDeviceStates: every virtual device shows what the remote
\* reports, the playback dial rests at its centre.  stripOk tells whether the
\* start-up read of the colour strip succeeded; a failed read is caught and
\* leaves the virtual light unwritten and the colour memory empty.
InitVirtual(stripOk) ==
    [d \in Devices |->
        CASE DeviceType(d) = "media_player" -> SpeakerState(InitRemote[EntityId(d)].volume_level)
          [] DeviceType(d) = "playback" -> SpeakerState(50)
          [] DeviceType(d) = "color_light" /\ ~stripOk -> LightState(Undef, Undef, Undef, Undef)
          [] DeviceType(d) = "climate" -> ReadBackClimate(d, InitRemote[EntityId(d)])
          [] DeviceType(d) = "blind" ->
                BlindState(CurrentBlindPosition(InitRemote[EntityId(d)]))
          [] OTHER -> ReadBackLight(d, InitRemote[EntityId(d)])]

InitMemory(stripOk) ==
    IF stripOk
    THEN ReadBackMemory(EmptyMap, "kitchen_color_light",
                        InitRemote[EntityId("kitchen_color_light")])
    ELSE EmptyMap

InitWith(stripOk) ==
    /\ now = StartTime
    /\ lastPlaybackCommandTime = 0
    /\ pendingUpdates = EmptyMap
    /\ expectedStates = EmptyMap
    /\ colorMemory = InitMemory(stripOk)
    /\ timers = EmptyMap
    /\ nextTimeoutId = 1
    /\ nextHandlerId = 1
    /\ tasks = EmptyMap
    /\ remote = InitRemote
    /\ virtual = InitVirtual(stripOk)
    /\ calls = <<>>
    /\ applied = <<>>
    /\ localWrites = <<>>
    /\ lastFired = Undef
    /\ lastFiredBy = "none"
    /\ lastEvent = Event("none", "none", "none")
    /\ lastColor = NoColor

\* Every start-up read succeeded.
Init == InitWith(TRUE)

\* ------------------------------------------------------------------- time
Deadlines ==
    {timers[i].deadline : i \in DOMAIN timers}
        \cup {tasks[i].wake : i \in {j \in DOMAIN tasks :
                                        tasks[j].pc = "settle"
                                           \/ (tasks[j].kind = "request" /\ tasks[j].wake # Undef)}}

\* Date.now() moves on by delta, but not past a timer that is due: the event
\* loop is idle between events, so a due timer runs before later time.
Advance(delta) ==
    LET target == now + delta
        due == {x \in Deadlines : x < target}
        stop == IF due = {} THEN target
                ELSE CHOOSE x \in due : \A y \in due : x <= y
    IN  /\ \A x \in Deadlines : x > now
        /\ now' = stop
        /\ UNCHANGED <<progVars, histVars>>

\* An idle period lasts until just before the end of a cooldown window.
IdlePeriod == PLAYBACK_COOLDOWN_MS - TimeStep
\* milliseconds since the start or the end of the last idle period
SinceIdle(t) == (t - StartTime) % IdlePeriod

TickWithin(limit) ==
    /\ SinceIdle(now) + TimeStep <= limit
    /\ Advance(TimeStep)

Tick == TickWithin(MaxTicks * TimeStep)
TickBusy == TickWithin(MaxBusyTicks * TimeStep)

Idle ==
    /\ now + IdlePeriod <= StartTime + MaxIdle * IdlePeriod + MaxBusyTicks * TimeStep
    /\ Advance(IdlePeriod)

\* ------------------------------------------------- cooldown gate (inline)
\* `timeSinceLastCommand < PLAYBACK_COOLDOWN_MS` as each handler evaluates it;
\* deviceId is the device the handler runs for and plays no part.
CooldownActive(deviceId, currentTime) ==
    currentTime - lastPlaybackCommandTime < PLAYBACK_COOLDOWN_MS

\* ------------------------------------------------------------ light setters
\* setLightBrightness: the call executeDeviceAction is asked to make.  The
\* brightness is clamped to 0..255 (every caller passes an integer, so
\* Math.round leaves it as it is); there is no test for zero here.
setLightBrightness(deviceId, brightness) ==
    ServiceCall(deviceId, "light", "turn_on", "brightness", Clamp(0, 255, brightness))

\* Variant of setClimateTemperature that sends the temperature unclamped.
setClimateTemperature_noClamp(deviceId, temperature) ==
    ServiceCall(deviceId, "climate", "set_temperature", "temperature", temperature)

\* setClimateTemperature: the temperature (tenths of a degree, so rounding to
\* one decimal leaves it as it is) is clamped to the device's range.
setClimateTemperature(deviceId, temperature) ==
    ServiceCall(deviceId, "climate", "set_temperature", "temperature",
                Clamp(TempMin(deviceId) * 10, TempMax(deviceId) * 10, temperature))

\* setBlindPosition: the position (an integer for every caller, so Math.round
\* leaves it as it is) is clamped to 0..100.
setBlindPosition(deviceId, position) ==
    ServiceCall(deviceId, "cover", "set_cover_position", "position", Clamp(0, 100, position))

\* setLightPower(deviceId, powerOn)
setLightPower(deviceId, powerOn) ==
    ServiceCall(deviceId, "light", IF powerOn THEN "turn_on" ELSE "turn_off", "none", Undef)

\* ------------------------------------------------ continuous light update
LightDevices == {d \in Devices : DeviceType(d) \in {"light", "color_light"}}

\* The `values` object of a virtualDeviceUpdate event (fields in thousandths)
Values(volume, brightness, hue, saturation, colorTemperature) ==
    [volume |-> volume, brightness |-> brightness, hue |-> hue, saturation |-> saturation,
     colorTemperature |-> colorTemperature, position |-> Undef]
BlindValues(position) ==
    [Values(Undef, Undef, Undef, Undef, Undef) EXCEPT !.position = position]
SpeakerValues(volume) == Values(volume, Undef, Undef, Undef, Undef)
LightValues(brightness, hue, saturation, colorTemperature) ==
    Values(Undef, brightness, hue, saturation, colorTemperature)

ColorUpdate(values) ==
    [hue |-> values.hue, saturation |-> values.saturation,
     colorTemperature |-> values.colorTemperature]

\* Number of debounce timers handleLightDeviceUpdate arms for values.
LightTimeoutsNeeded(d, values) ==
    (IF values.brightness # Undef THEN 1 ELSE 0)
    + (IF DeviceType(d) = "color_light" /\ (values.hue # Undef \/ values.saturation # Undef)
       THEN 1 ELSE 0)
    + (IF DeviceType(d) = "color_light" /\ values.colorTemperature # Undef THEN 1 ELSE 0)

\* handleLightDeviceUpdate up to its first await (or to its end).
handleLightDeviceUpdate(deviceId, values) ==
    LET brightness == IF values.brightness = Undef THEN Undef
                      ELSE RoundDiv(values.brightness * 255, Scale)
    IN
    /\ deviceId \in LightDevices
    /\ IF values.brightness # Undef /\ brightness = 0
       THEN \* immediate power off: await setLightPower(deviceId, false); return
            /\ Suspend(Task("light_off", deviceId, "svc", setLightPower(deviceId, FALSE),
                            NoKey, Undef, Undef, Undef))
            /\ lastEvent' = Event("light_update", deviceId, "power_off")
            /\ UNCHANGED <<now, lastPlaybackCommandTime, pendingUpdates, expectedStates,
                           colorMemory, timers, nextTimeoutId, remote, virtual,
                           calls, applied, localWrites, lastFired, lastFiredBy, lastColor>>
       ELSE LET s0 == DebounceState
                s1 == IF values.brightness # Undef
                      THEN debouncedDeviceUpdate(s0, deviceId, "brightness", brightness,
                              Immediate(LightState(brightness,
                                                   OrDefault(values.hue, 0),
                                                   OrDefault(values.saturation, 0),
                                                   OrDefault(values.colorTemperature, Scale \div 2))))
                      ELSE s0
                s2 == IF DeviceType(deviceId) = "color_light"
                         /\ (values.hue # Undef \/ values.saturation # Undef)
                      THEN debouncedDeviceUpdate(s1, deviceId, "color", ColorUpdate(values),
                                                 NoImmediate)
                      ELSE s1
                s3 == IF DeviceType(deviceId) = "color_light" /\ values.colorTemperature # Undef
                      THEN debouncedDeviceUpdate(s2, deviceId, "colortemp",
                                                 values.colorTemperature, NoImmediate)
                      ELSE s2
            IN  /\ nextTimeoutId + LightTimeoutsNeeded(deviceId, values) - 1 <= MaxTimeouts
                /\ LightTimeoutsNeeded(deviceId, values) > 0
                /\ SetDebounceState(s3)
                /\ lastEvent' = Event("light_update", deviceId, "debounced")
                /\ UNCHANGED <<now, lastPlaybackCommandTime, colorMemory, tasks,
                               nextHandlerId, remote, applied, lastFired, lastFiredBy,
                               lastColor>>

\* ------------------------------------------------ continuous media update
MediaDevices == {d \in Devices : DeviceType(d) = "media_player"}

\* handleMediaDeviceUpdate on a host whose virtualDeviceUpdateState throws or
\* does not.
handleMediaDeviceUpdateOnHost(deviceId, values, hostThrows) ==
    LET currentTime == now
        volumePercentage == RoundDiv(values.volume * 100, Scale)
    IN
    /\ deviceId \in MediaDevices
    /\ values.volume # Undef
    /\ IF CooldownActive(deviceId, currentTime)
       THEN /\ lastEvent' = Event("volume_twist", deviceId, "blocked")
            /\ UNCHANGED <<now, progVars, calls, applied, localWrites, lastFired, lastFiredBy, lastColor>>
       ELSE /\ nextTimeoutId <= MaxTimeouts
            /\ SetDebounceState(debouncedDeviceUpdate(DebounceState, deviceId, "volume",
                                    volumePercentage,
                                    ImmediateOnHost(SpeakerState(volumePercentage),
                                                    hostThrows)))
            /\ lastEvent' = Event("volume_twist", deviceId, "passed")
            /\ UNCHANGED <<now, lastPlaybackCommandTime, colorMemory, tasks, nextHandlerId,
                           remote, applied, lastFired, lastFiredBy, lastColor>>

handleMediaDeviceUpdate(deviceId, values) ==
    handleMediaDeviceUpdateOnHost(deviceId, values, FALSE)


\* --------------------------------------------------- debounce timer fires
\* The request updateFunction(updateData) issues before its first await.
FirstRequest(key, updateData) ==
    LET deviceId == key[1]
        updateType == key[2]
    IN  CASE updateType = "volume" ->
                \* setMediaVolume: volume_level = volume / 100
                [pc |-> "svc", call |-> ServiceCall(deviceId, "media_player", "volume_set",
                                                    "volume_level", updateData)]
          [] updateType = "brightness" ->
                [pc |-> "svc", call |-> setLightBrightness(deviceId, updateData)]
          [] updateType = "color" ->
                \* applyColorUpdate: getEntityState first
                [pc |-> "read", call |-> NoCall]
          [] updateType = "temperature" ->
                [pc |-> "svc", call |-> setClimateTemperature(deviceId, updateData)]
          [] updateType = "position" ->
                [pc |-> "svc", call |-> setBlindPosition(deviceId, updateData)]
          [] updateType = "colortemp" ->
                \* applyColorTemperatureUpdate
                [pc |-> "svc", call |-> ServiceCall(deviceId, "light", "turn_on", "color_temp",
                                                    ColorTemperatureToMireds(updateData))]

\* The setTimeout callback of debouncedDeviceUpdate, up to its await.
\* Variant in which a firing timer aborts the applies of its key that are
\* still awaiting the remote.
TimerFire_abortsEarlier(timeoutId) ==
    /\ timeoutId \in DOMAIN timers
    /\ timers[timeoutId].deadline <= now
    /\ LET tm == timers[timeoutId]
           first == FirstRequest(tm.key, tm.updateData)
           kept == {j \in DOMAIN tasks : ~(tasks[j].kind = "apply" /\ tasks[j].key = tm.key)}
       IN  /\ timers' = MapDelete(timers, timeoutId)
           /\ tasks' = MapSet([j \in kept |-> tasks[j]], TimerTask(timeoutId),
                              Task("apply", tm.key[1], first.pc, first.call, tm.key,
                                   tm.updateData, Undef, Undef))
           /\ applied' = Append(applied,
                  [key |-> tm.key, updateData |-> tm.updateData, timeoutId |-> timeoutId,
                   superseded |-> \E i \in 1..Len(calls) :
                                     /\ calls[i].key = tm.key
                                     /\ calls[i].timeoutId > timeoutId])
    /\ UNCHANGED <<now, lastPlaybackCommandTime, pendingUpdates, expectedStates, colorMemory,
                   nextTimeoutId, nextHandlerId, remote, virtual, calls, localWrites, lastFired,
                   lastFiredBy, lastEvent, lastColor>>

TimerFire(timeoutId) ==
    /\ timeoutId \in DOMAIN timers
    /\ timers[timeoutId].deadline <= now
    /\ LET tm == timers[timeoutId]
           first == FirstRequest(tm.key, tm.updateData)
       IN  /\ timers' = MapDelete(timers, timeoutId)
           /\ tasks' = MapSet(tasks, TimerTask(timeoutId),
                              Task("apply", tm.key[1], first.pc, first.call, tm.key,
                                   tm.updateData, Undef, Undef))
           /\ applied' = Append(applied,
                  [key |-> tm.key, updateData |-> tm.updateData, timeoutId |-> timeoutId,
                   superseded |-> \E i \in 1..Len(calls) :
                                     /\ calls[i].key = tm.key
                                     /\ calls[i].timeoutId > timeoutId])
    /\ UNCHANGED <<now, lastPlaybackCommandTime, pendingUpdates, expectedStates, colorMemory,
                   nextTimeoutId, nextHandlerId, remote, virtual, calls, localWrites, lastFired,
                   lastFiredBy, lastEvent, lastColor>>

\* Variant whose `finally` forgets the expected state of the key.
FinishApply_keepsExpected(id) ==
    /\ pendingUpdates' = MapDelete(pendingUpdates, tasks[id].key)
    /\ UNCHANGED expectedStates
    /\ tasks' = MapDelete(tasks, id)

\* Variant in which the callback ends without its `finally`.
FinishApply_keepsEntries(id) ==
    /\ UNCHANGED <<pendingUpdates, expectedStates>>
    /\ tasks' = MapDelete(tasks, id)

\* The `finally` of the callback: the entries of the key are deleted, whoever
\* installed them.
FinishApply(id) ==
    LET key == tasks[id].key
    IN  /\ pendingUpdates' = MapDelete(pendingUpdates, key)
        /\ expectedStates' = MapDelete(expectedStates, key)
        /\ tasks' = MapDelete(tasks, id)

\* Variant in which a rejected service call leaves the entries of the key.
DebouncedServiceResponse_keepsEntry(id, ok) ==
    /\ id \in DOMAIN tasks
    /\ tasks[id].kind = "apply"
    /\ tasks[id].pc = "svc"
    /\ remote' = IF ok THEN RemoteApply(remote, tasks[id].call) ELSE remote
    /\ tasks' = IF ok
                THEN [tasks EXCEPT
                        ![id].pc = IF tasks[id].key[2] \in {"color", "colortemp"}
                                   THEN "settle" ELSE "readback",
                        ![id].wake = IF tasks[id].key[2] \in {"color", "colortemp"}
                                     THEN now + SETTLE_DELAY ELSE Undef,
                        ![id].call = NoCall]
                ELSE MapDelete(tasks, id)
    /\ UNCHANGED <<now, lastPlaybackCommandTime, pendingUpdates, expectedStates, colorMemory,
                   timers, nextTimeoutId, nextHandlerId, virtual, histVars>>

\* Variant in which the read-back follows a rejected service call too.
DebouncedServiceResponse_alwaysReadsBack(id, ok) ==
    /\ id \in DOMAIN tasks
    /\ tasks[id].kind = "apply"
    /\ tasks[id].pc = "svc"
    /\ remote' = IF ok THEN RemoteApply(remote, tasks[id].call) ELSE remote
    /\ tasks' = [tasks EXCEPT
                   ![id].pc = IF tasks[id].key[2] \in {"color", "colortemp"}
                              THEN "settle" ELSE "readback",
                   ![id].wake = IF tasks[id].key[2] \in {"color", "colortemp"}
                                THEN now + SETTLE_DELAY ELSE Undef,
                   ![id].call = NoCall]
    /\ UNCHANGED <<now, lastPlaybackCommandTime, pendingUpdates, expectedStates, colorMemory,
                   timers, nextTimeoutId, nextHandlerId, virtual, histVars>>

\* The remote answers the service call of a debounced apply: executeDeviceAction
\* (volume, brightness) goes on to the read-back, applyColorUpdate and
\* applyColorTemperatureUpdate wait 100 ms first; a rejection ends the callback.
DebouncedServiceResponse(id, ok) ==
    /\ id \in DOMAIN tasks
    /\ tasks[id].kind = "apply"
    /\ tasks[id].pc = "svc"
    /\ remote' = IF ok THEN RemoteApply(remote, tasks[id].call) ELSE remote
    /\ IF ok
       THEN /\ tasks' = [tasks EXCEPT
                   ![id].pc = IF tasks[id].key[2] \in {"color", "colortemp"}
                              THEN "settle" ELSE "readback",
                   ![id].wake = IF tasks[id].key[2] \in {"color", "colortemp"}
                                THEN now + SETTLE_DELAY ELSE Undef,
                   ![id].call = NoCall]
            /\ UNCHANGED <<pendingUpdates, expectedStates>>
       ELSE FinishApply(id)
    /\ UNCHANGED <<now, lastPlaybackCommandTime, colorMemory, timers, nextTimeoutId, nextHandlerId,
                   virtual, histVars>>

\* `await new Promise(resolve => setTimeout(resolve, 100))` is over
SettleDone(id) ==
    /\ id \in DOMAIN tasks
    /\ tasks[id].pc = "settle"
    /\ tasks[id].wake <= now
    /\ tasks' = [tasks EXCEPT ![id].pc = "readback", ![id].wake = Undef]
    /\ UNCHANGED <<now, lastPlaybackCommandTime, pendingUpdates, expectedStates, colorMemory,
                   timers, nextTimeoutId, nextHandlerId, remote, virtual, histVars>>

\* The state read of getCurrentVolumeAndUpdate / getCurrentBrightnessAndUpdate /
\* getCurrentTemperatureAndUpdate / getCurrentBlindPositionAndUpdate returns
\* (or fails, which each of them catches); the caller then ends.
ReadBackResponse(id, ok) ==
    /\ id \in DOMAIN tasks
    /\ tasks[id].pc = "readback"
    /\ LET d == tasks[id].dev
           st == remote[EntityId(d)]
       IN  /\ virtual' = IF ~ok THEN virtual
                         ELSE IF tasks[id].kind = "volume_action"
                         THEN \* setMediaVolume reads back with getCurrentVolumeAndUpdate
                              [virtual EXCEPT ![d] = SpeakerState(st.volume_level)]
                         ELSE IF DeviceType(d) \in {"light", "color_light"}
                         THEN [virtual EXCEPT ![d] = ReadBackLight(d, st)]
                         ELSE IF DeviceType(d) = "climate"
                         THEN [virtual EXCEPT ![d] = ReadBackClimate(d, st)]
                         ELSE IF DeviceType(d) = "blind"
                         THEN [virtual EXCEPT ![d] = BlindState(CurrentBlindPosition(st))]
                         ELSE [virtual EXCEPT ![d] = SpeakerState(st.volume_level)]
           /\ colorMemory' = IF ok /\ tasks[id].kind # "volume_action"
                            THEN ReadBackMemory(colorMemory, d, st) ELSE colorMemory
    /\ IF tasks[id].kind = "apply"
       THEN FinishApply(id)
       ELSE /\ tasks' = MapDelete(tasks, id)
            /\ UNCHANGED <<pendingUpdates, expectedStates>>
    /\ UNCHANGED <<now, lastPlaybackCommandTime, timers, nextTimeoutId, nextHandlerId, remote, histVars>>


\* ------------------------------------------------------- applyColorUpdate
\* Variant without the restore-from-white case: the observed hue is kept.
FinalColor_currentHue(mem, deviceId, observed, colorUpdate) ==
    LET currentHue == IF observed # <<>> THEN observed[1] ELSE 0
        currentSat == IF observed # <<>> THEN observed[2] ELSE 100
        mem1 == IF observed # <<>> THEN rememberColor(mem, deviceId, currentHue, currentSat)
                ELSE mem
        finalHue == IF colorUpdate.hue # Undef THEN RoundDiv(colorUpdate.hue * 360, Scale)
                    ELSE currentHue
        finalSat == IF colorUpdate.saturation # Undef
                    THEN RoundDiv(colorUpdate.saturation * 100, Scale) ELSE currentSat
    IN  [hue |-> finalHue, saturation |-> finalSat,
         memory |-> rememberColor(mem1, deviceId, finalHue, finalSat),
         recalled |-> <<>>]

\* The colour applyColorUpdate sends and the memory it leaves, computed from
\* the observed hs_color (<<>> when the attribute is missing) and the update.
FinalColor(mem, deviceId, observed, colorUpdate) ==
    LET currentHue == IF observed # <<>> THEN observed[1] ELSE 0
        currentSat == IF observed # <<>> THEN observed[2] ELSE 100
        mem1 == IF observed # <<>> THEN rememberColor(mem, deviceId, currentHue, currentSat)
                ELSE mem
        hue0 == IF colorUpdate.hue # Undef THEN RoundDiv(colorUpdate.hue * 360, Scale)
                ELSE currentHue
        newSat == IF colorUpdate.saturation # Undef
                  THEN RoundDiv(colorUpdate.saturation * 100, Scale) ELSE Undef
        fromWhite == /\ colorUpdate.saturation # Undef
                     /\ currentSat <= MEANINGFUL_SATURATION_THRESHOLD
                     /\ newSat > MEANINGFUL_SATURATION_THRESHOLD
        remembered == getRememberedColor(mem1, deviceId, hue0, newSat)
        finalHue == IF fromWhite /\ colorUpdate.hue = Undef THEN remembered.hue ELSE hue0
        finalSat == IF colorUpdate.saturation # Undef THEN newSat ELSE currentSat
    IN  [hue |-> finalHue, saturation |-> finalSat,
         memory |-> rememberColor(mem1, deviceId, finalHue, finalSat),
         recalled |-> IF fromWhite THEN <<remembered.hue, remembered.saturation>> ELSE <<>>]

\* applyColorUpdate resumes after `await getEntityState`: it computes the
\* colour and issues light.turn_on; a failed read ends the callback.
ColorStateResponse(id, ok) ==
    /\ id \in DOMAIN tasks
    /\ tasks[id].kind = "apply"
    /\ tasks[id].key[2] = "color"
    /\ tasks[id].pc = "read"
    /\ LET d == tasks[id].dev
           observed == remote[EntityId(d)].hs_color
           final == FinalColor(colorMemory, d, observed, tasks[id].updateData)
       IN  IF ok
           THEN /\ colorMemory' = final.memory
                /\ tasks' = [tasks EXCEPT ![id].pc = "svc",
                                ![id].call = ServiceCall(d, "light", "turn_on", "hs_color",
                                                         <<final.hue, final.saturation>>)]
                /\ lastColor' = [dev |-> d, observed |-> observed,
                                 update |-> <<tasks[id].updateData.hue,
                                              tasks[id].updateData.saturation>>,
                                 remembered |-> IF d \in DOMAIN colorMemory
                                                THEN <<colorMemory[d].hue, colorMemory[d].saturation>>
                                                ELSE <<>>,
                                 sent |-> <<final.hue, final.saturation>>,
                                 recalled |-> final.recalled]
                /\ UNCHANGED <<pendingUpdates, expectedStates>>
           ELSE /\ FinishApply(id)
                /\ UNCHANGED <<colorMemory, lastColor>>
    /\ UNCHANGED <<now, lastPlaybackCommandTime, timers, nextTimeoutId, nextHandlerId, remote, virtual,
                   calls, applied, localWrites, lastFired, lastFiredBy, lastEvent>>

\* ---------------------------------------------- continuous climate update
ClimateDevices == {d \in Devices : DeviceType(d) = "climate"}

\* tempRange.min + position * (tempRange.max - tempRange.min), rounded to one
\* decimal: the result in tenths of a degree.
PositionToTemperature(d, position) ==
    TempMin(d) * 10 + RoundDiv(position * (TempMax(d) - TempMin(d)) * 10, Scale)

handleClimateDeviceUpdate(deviceId, values) ==
    LET roundedTemp == PositionToTemperature(deviceId, values.position)
    IN
    /\ deviceId \in ClimateDevices
    /\ values.position # Undef
    /\ nextTimeoutId <= MaxTimeouts
    /\ SetDebounceState(debouncedDeviceUpdate(DebounceState, deviceId, "temperature",
                            roundedTemp, Immediate(ClimatePosition(deviceId, roundedTemp))))
    /\ lastEvent' = Event("climate_update", deviceId, "debounced")
    /\ UNCHANGED <<now, lastPlaybackCommandTime, colorMemory, tasks, nextHandlerId,
                   remote, applied, lastFired, lastFiredBy, lastColor>>

\* ------------------------------------------------ continuous blind update
\* handleBlindDeviceUpdate: Math.round(values.position * 100) is debounced on
\* the 'position' channel and shown at once.
handleBlindDeviceUpdate(deviceId, values) ==
    LET blindPosition == RoundDiv(values.position * 100, Scale)
    IN
    /\ DeviceType(deviceId) = "blind"
    /\ values.position # Undef
    /\ nextTimeoutId <= MaxTimeouts
    /\ SetDebounceState(debouncedDeviceUpdate(DebounceState, deviceId, "position",
                            blindPosition, Immediate(BlindState(blindPosition))))
    /\ lastEvent' = Event("blind_update", deviceId, "debounced")
    /\ UNCHANGED <<now, lastPlaybackCommandTime, colorMemory, tasks, nextHandlerId,
                   remote, applied, lastFired, lastFiredBy, lastColor>>

\* ------------------------------------------------------ playback gestures
PlaybackDevices == {d \in Devices : DeviceType(d) = "playback"}
CENTER == Scale \div 2
DEAD_ZONE == Scale \div 10

\* Variant in which a gesture rejected by the cooldown leaves the dial where
\* it is.
handlePlaybackDeviceUpdate_blockedLeavesDial(deviceId, values) ==
    LET volumeChange == values.volume - CENTER
        isPlaybackCommand == values.volume # Undef /\ Abs(volumeChange) > DEAD_ZONE
        currentTime == now
    IN
    /\ deviceId \in PlaybackDevices
    /\ IF ~isPlaybackCommand
       THEN /\ virtual' = [virtual EXCEPT ![deviceId] = SpeakerState(50)]
            /\ lastEvent' = Event("playback_twist", deviceId, "deadzone")
            /\ UNCHANGED <<tasks, nextHandlerId, lastFired, lastFiredBy>>
       ELSE IF CooldownActive(deviceId, currentTime)
       THEN /\ UNCHANGED virtual
            /\ lastEvent' = Event("playback_twist", deviceId, "blocked")
            /\ UNCHANGED <<tasks, nextHandlerId, lastFired, lastFiredBy>>
       ELSE /\ Suspend(IF volumeChange < 0
                       THEN Task("gesture", deviceId, "svc",
                                 ServiceCall(deviceId, "media_player", "media_pause",
                                             "none", Undef),
                                 NoKey, values.volume, currentTime, Undef)
                       ELSE Task("gesture", deviceId, "read", NoCall, NoKey,
                                 values.volume, currentTime, Undef))
            /\ lastFired' = now
            /\ lastFiredBy' = deviceId
            /\ lastEvent' = Event("playback_twist", deviceId, "passed")
            /\ UNCHANGED virtual
    /\ UNCHANGED <<now, lastPlaybackCommandTime, pendingUpdates, expectedStates, colorMemory,
                   timers, nextTimeoutId, remote, calls, applied, localWrites, lastColor>>

\* handlePlaybackDeviceUpdate up to its first await (or to its end).
handlePlaybackDeviceUpdate(deviceId, values) ==
    LET volumeChange == values.volume - CENTER
        isPlaybackCommand == values.volume # Undef /\ Abs(volumeChange) > DEAD_ZONE
        currentTime == now
    IN
    /\ deviceId \in PlaybackDevices
    /\ IF ~isPlaybackCommand
       THEN /\ virtual' = [virtual EXCEPT ![deviceId] = SpeakerState(50)]
            /\ lastEvent' = Event("playback_twist", deviceId, "deadzone")
            /\ UNCHANGED <<tasks, nextHandlerId, lastFired, lastFiredBy>>
       ELSE IF CooldownActive(deviceId, currentTime)
       THEN /\ virtual' = [virtual EXCEPT ![deviceId] = SpeakerState(50)]
            /\ lastEvent' = Event("playback_twist", deviceId, "blocked")
            /\ UNCHANGED <<tasks, nextHandlerId, lastFired, lastFiredBy>>
       ELSE /\ Suspend(IF volumeChange < 0
                       THEN Task("gesture", deviceId, "svc",
                                 ServiceCall(deviceId, "media_player", "media_pause",
                                             "none", Undef),
                                 NoKey, values.volume, currentTime, Undef)
                       ELSE Task("gesture", deviceId, "read", NoCall, NoKey,
                                 values.volume, currentTime, Undef))
            /\ lastFired' = now
            /\ lastFiredBy' = deviceId
            /\ lastEvent' = Event("playback_twist", deviceId, "passed")
            /\ UNCHANGED virtual
    /\ UNCHANGED <<now, lastPlaybackCommandTime, pendingUpdates, expectedStates, colorMemory,
                   timers, nextTimeoutId, remote, calls, applied, localWrites, lastColor>>

\* Variant that updates the cooldown only after a success, to the time of
\* the update.
FinishGesture_onSuccessOnly(id, ok) ==
    LET d == tasks[id].dev
    IN  /\ lastPlaybackCommandTime' = IF ok THEN now ELSE lastPlaybackCommandTime
        /\ virtual' = [virtual EXCEPT ![d] = SpeakerState(50)]
        /\ tasks' = MapDelete(tasks, id)
        /\ lastEvent' = Event("playback_done", d, IF ok THEN "succeeded" ELSE "failed")

\* The end of handlePlaybackDeviceUpdate after a command: the catch has
\* swallowed any failure, the cooldown is updated and the dial re-centred.
FinishGesture(id, ok) ==
    LET d == tasks[id].dev
    IN  /\ lastPlaybackCommandTime' = tasks[id].currentTime
        /\ virtual' = [virtual EXCEPT ![d] = SpeakerState(50)]
        /\ tasks' = MapDelete(tasks, id)
        /\ lastEvent' = Event("playback_done", d, IF ok THEN "succeeded" ELSE "failed")

\* Variant of the twist-up branch that resumes whatever the state is.
GestureStateResponse_alwaysPlay(id, ok) ==
    /\ id \in DOMAIN tasks
    /\ tasks[id].kind = "gesture"
    /\ tasks[id].pc = "read"
    /\ IF ok
       THEN /\ tasks' = [tasks EXCEPT ![id].pc = "svc",
                   ![id].call = ServiceCall(tasks[id].dev, "media_player", "media_play",
                                            "none", Undef)]
            /\ UNCHANGED <<lastPlaybackCommandTime, virtual, lastEvent>>
       ELSE FinishGesture(id, FALSE)
    /\ UNCHANGED <<now, pendingUpdates, expectedStates, colorMemory, timers, nextTimeoutId, nextHandlerId,
                   remote, calls, applied, localWrites, lastFired, lastFiredBy, lastColor>>

\* getMediaPlaybackState returns to the twist-up branch
GestureStateResponse(id, ok) ==
    /\ id \in DOMAIN tasks
    /\ tasks[id].kind = "gesture"
    /\ tasks[id].pc = "read"
    /\ LET d == tasks[id].dev
           currentState == remote[EntityId(d)].state
       IN  IF ok
           THEN /\ tasks' = [tasks EXCEPT ![id].pc = "svc",
                       ![id].call = ServiceCall(d, "media_player",
                            IF currentState = "paused" THEN "media_play"
                            ELSE IF currentState = "playing" THEN "media_next_track"
                            ELSE "media_play", "none", Undef)]
                /\ UNCHANGED <<lastPlaybackCommandTime, virtual, lastEvent>>
           ELSE FinishGesture(id, FALSE)
    /\ UNCHANGED <<now, pendingUpdates, expectedStates, colorMemory, timers, nextTimeoutId, nextHandlerId,
                   remote, calls, applied, localWrites, lastFired, lastFiredBy, lastColor>>

\* the pause / play / next-track call of a gesture settles
GestureServiceResponse(id, ok) ==
    /\ id \in DOMAIN tasks
    /\ tasks[id].kind = "gesture"
    /\ tasks[id].pc = "svc"
    /\ remote' = IF ok THEN RemoteApply(remote, tasks[id].call) ELSE remote
    /\ FinishGesture(id, ok)
    /\ UNCHANGED <<now, pendingUpdates, expectedStates, colorMemory, timers, nextTimeoutId, nextHandlerId,
                   calls, applied, localWrites, lastFired, lastFiredBy, lastColor>>

\* ---------------------------------------------------------- volume actions
\* Variant in which a volume action that passes the gate starts a cooldown.
adjustDeviceVolume_marksFired(deviceId, delta) ==
    LET currentTime == now
    IN
    /\ deviceId \in Devices
    /\ IF CooldownActive(deviceId, currentTime)
       THEN /\ lastEvent' = Event("volume_action", deviceId, "blocked")
            /\ UNCHANGED <<tasks, nextHandlerId, lastPlaybackCommandTime>>
       ELSE /\ Suspend(Task("volume_action", deviceId, "read", NoCall, NoKey, delta,
                            Undef, Undef))
            /\ lastEvent' = Event("volume_action", deviceId, "passed")
            /\ lastPlaybackCommandTime' = currentTime
    /\ UNCHANGED <<now, pendingUpdates, expectedStates, colorMemory,
                   timers, nextTimeoutId, remote, virtual, calls, applied, localWrites,
                   lastFired, lastFiredBy, lastColor>>

\* adjustDeviceVolume up to `await getEntityState`
adjustDeviceVolume(deviceId, delta) ==
    LET currentTime == now
    IN
    /\ deviceId \in Devices
    /\ IF CooldownActive(deviceId, currentTime)
       THEN /\ lastEvent' = Event("volume_action", deviceId, "blocked")
            /\ UNCHANGED <<tasks, nextHandlerId>>
       ELSE /\ Suspend(Task("volume_action", deviceId, "read", NoCall, NoKey, delta,
                            Undef, Undef))
            /\ lastEvent' = Event("volume_action", deviceId, "passed")
    /\ UNCHANGED <<now, lastPlaybackCommandTime, pendingUpdates, expectedStates, colorMemory,
                   timers, nextTimeoutId, remote, virtual, calls, applied, localWrites,
                   lastFired, lastFiredBy, lastColor>>

\* Variant that adds the delta without clamping.
VolumeActionStateResponse_noClamp(id, ok) ==
    /\ id \in DOMAIN tasks
    /\ tasks[id].kind = "volume_action"
    /\ tasks[id].pc = "read"
    /\ LET d == tasks[id].dev
           level == remote[EntityId(d)].volume_level
           newVolume == IF level = Undef THEN Undef ELSE level + tasks[id].updateData
       IN  tasks' = IF ok
                    THEN [tasks EXCEPT ![id].pc = "svc",
                             ![id].call = ServiceCall(d, "media_player", "volume_set",
                                                      "volume_level", newVolume)]
                    ELSE MapDelete(tasks, id)
    /\ UNCHANGED <<now, lastPlaybackCommandTime, pendingUpdates, expectedStates, colorMemory,
                   timers, nextTimeoutId, nextHandlerId, remote, virtual, histVars>>

\* the state read of adjustDeviceVolume returns: clamp and setMediaVolume
VolumeActionStateResponse(id, ok) ==
    /\ id \in DOMAIN tasks
    /\ tasks[id].kind = "volume_action"
    /\ tasks[id].pc = "read"
    /\ LET d == tasks[id].dev
           level == remote[EntityId(d)].volume_level
           \* undefined * 100 is NaN and stays NaN through Math.max/Math.min
           newVolume == IF level = Undef THEN Undef
                        ELSE Clamp(0, 100, level + tasks[id].updateData)
       IN  tasks' = IF ok
                    THEN [tasks EXCEPT ![id].pc = "svc",
                             ![id].call = ServiceCall(d, "media_player", "volume_set",
                                                      "volume_level", newVolume)]
                    ELSE MapDelete(tasks, id)
    /\ UNCHANGED <<now, lastPlaybackCommandTime, pendingUpdates, expectedStates, colorMemory,
                   timers, nextTimeoutId, nextHandlerId, remote, virtual, histVars>>

\* Variant in which the rejection of an action's service call is not caught
\* and takes every suspended handler down with it.
ActionServiceResponse_failureHalts(id, ok) ==
    /\ id \in DOMAIN tasks
    /\ tasks[id].kind \in {"volume_action", "light_off", "brightness_action",
                          "temperature_action", "blind_action"}
    /\ tasks[id].pc = "svc"
    /\ remote' = IF ok THEN RemoteApply(remote, tasks[id].call) ELSE remote
    /\ tasks' = IF ok THEN [tasks EXCEPT ![id].pc = "readback", ![id].call = NoCall]
                ELSE EmptyMap
    /\ UNCHANGED <<now, lastPlaybackCommandTime, pendingUpdates, expectedStates, colorMemory,
                   timers, nextTimeoutId, nextHandlerId, virtual, histVars>>

\* The service call of an action handler (executeDeviceAction for
\* setMediaVolume, setLightPower, setLightBrightness; setClimateTemperature;
\* setBlindPosition)
\* settles: on success the read-back follows, a failure ends the handler.
ActionServiceResponse(id, ok) ==
    /\ id \in DOMAIN tasks
    /\ tasks[id].kind \in {"volume_action", "light_off", "brightness_action",
                          "temperature_action", "blind_action"}
    /\ tasks[id].pc = "svc"
    /\ remote' = IF ok THEN RemoteApply(remote, tasks[id].call) ELSE remote
    /\ tasks' = IF ok THEN [tasks EXCEPT ![id].pc = "readback", ![id].call = NoCall]
                ELSE MapDelete(tasks, id)
    /\ UNCHANGED <<now, lastPlaybackCommandTime, pendingUpdates, expectedStates, colorMemory,
                   timers, nextTimeoutId, nextHandlerId, virtual, histVars>>

\* ------------------------------------------------------ brightness actions
BRIGHTNESS_STEP == 25

\* handleDeviceBrightnessUp / handleDeviceBrightnessDown up to
\* `await getCurrentBrightnessAndUpdate(device)`; delta is +25 or -25.
handleDeviceBrightness(deviceId, delta) ==
    /\ IF deviceId \in LightDevices
       THEN /\ Suspend(Task("brightness_action", deviceId, "read", NoCall, NoKey, delta,
                            Undef, Undef))
            /\ lastEvent' = Event("brightness_action", deviceId, "started")
       ELSE /\ lastEvent' = Event("brightness_action", deviceId, "ignored")
            /\ UNCHANGED <<tasks, nextHandlerId>>
    /\ UNCHANGED <<now, lastPlaybackCommandTime, pendingUpdates, expectedStates, colorMemory,
                   timers, nextTimeoutId, remote, virtual, calls, applied, localWrites,
                   lastFired, lastFiredBy, lastColor>>

handleDeviceBrightnessUp(deviceId) == handleDeviceBrightness(deviceId, BRIGHTNESS_STEP)
handleDeviceBrightnessDown(deviceId) == handleDeviceBrightness(deviceId, -BRIGHTNESS_STEP)

\* The brightness getCurrentBrightnessAndUpdate returns for entity state st.
CurrentBrightness(st) ==
    IF st.state = "on" /\ st.brightness # Undef THEN st.brightness ELSE 0

\* Variant of the brightness actions without the power-off at zero.
BrightnessActionStateResponse_noPowerOff(id, ok) ==
    /\ id \in DOMAIN tasks
    /\ tasks[id].kind = "brightness_action"
    /\ tasks[id].pc = "read"
    /\ LET d == tasks[id].dev
           st == remote[EntityId(d)]
           delta == tasks[id].updateData
           currentBrightness == IF ok THEN CurrentBrightness(st) ELSE 0
           newBrightness == IF delta > 0 THEN Min(255, currentBrightness + delta)
                            ELSE Max(0, currentBrightness + delta)
       IN  /\ virtual' = IF ok THEN [virtual EXCEPT ![d] = ReadBackLight(d, st)] ELSE virtual
           /\ colorMemory' = IF ok THEN ReadBackMemory(colorMemory, d, st) ELSE colorMemory
           /\ tasks' = [tasks EXCEPT ![id].pc = "svc",
                           ![id].call = setLightBrightness(d, newBrightness)]
    /\ UNCHANGED <<now, lastPlaybackCommandTime, pendingUpdates, expectedStates,
                   timers, nextTimeoutId, nextHandlerId, remote, histVars>>

\* getCurrentBrightnessAndUpdate returns to a brightness action: the local
\* state is written (a failed read is caught and yields null, used as 0), the
\* new brightness is computed, and brightness down at 0 powers the light off.
BrightnessActionStateResponse(id, ok) ==
    /\ id \in DOMAIN tasks
    /\ tasks[id].kind = "brightness_action"
    /\ tasks[id].pc = "read"
    /\ LET d == tasks[id].dev
           st == remote[EntityId(d)]
           delta == tasks[id].updateData
           currentBrightness == IF ok THEN CurrentBrightness(st) ELSE 0
           newBrightness == IF delta > 0 THEN Min(255, currentBrightness + delta)
                            ELSE Max(0, currentBrightness + delta)
       IN  /\ virtual' = IF ok THEN [virtual EXCEPT ![d] = ReadBackLight(d, st)] ELSE virtual
           /\ colorMemory' = IF ok THEN ReadBackMemory(colorMemory, d, st) ELSE colorMemory
           /\ tasks' = [tasks EXCEPT ![id].pc = "svc",
                           ![id].call = IF delta < 0 /\ newBrightness = 0
                                        THEN setLightPower(d, FALSE)
                                        ELSE setLightBrightness(d, newBrightness)]
    /\ UNCHANGED <<now, lastPlaybackCommandTime, pendingUpdates, expectedStates,
                   timers, nextTimeoutId, nextHandlerId, remote, histVars>>

\* ----------------------------------------------------- temperature actions
\* one degree, in tenths
TEMPERATURE_STEP == 10

\* handleDeviceTemperatureUp / handleDeviceTemperatureDown up to
\* `await getCurrentTemperatureAndUpdate(device)`; delta is +1 or -1 degree.
handleDeviceTemperature(deviceId, delta) ==
    /\ IF deviceId \in ClimateDevices
       THEN /\ Suspend(Task("temperature_action", deviceId, "read", NoCall, NoKey, delta,
                            Undef, Undef))
            /\ lastEvent' = Event("temperature_action", deviceId, "started")
       ELSE /\ lastEvent' = Event("temperature_action", deviceId, "ignored")
            /\ UNCHANGED <<tasks, nextHandlerId>>
    /\ UNCHANGED <<now, lastPlaybackCommandTime, pendingUpdates, expectedStates, colorMemory,
                   timers, nextTimeoutId, remote, virtual, calls, applied, localWrites,
                   lastFired, lastFiredBy, lastColor>>

handleDeviceTemperatureUp(deviceId) == handleDeviceTemperature(deviceId, TEMPERATURE_STEP)
handleDeviceTemperatureDown(deviceId) == handleDeviceTemperature(deviceId, -TEMPERATURE_STEP)

\* getCurrentTemperatureAndUpdate returns to a temperature action: the local
\* state is written (a failed read is caught and yields null, used as 20
\* degrees) and setClimateTemperature is called with current +/- 1.
TemperatureActionStateResponse(id, ok) ==
    /\ id \in DOMAIN tasks
    /\ tasks[id].kind = "temperature_action"
    /\ tasks[id].pc = "read"
    /\ LET d == tasks[id].dev
           st == remote[EntityId(d)]
           currentTemp == IF ok THEN CurrentTemperature(st) ELSE 200
           newTemp == currentTemp + tasks[id].updateData
       IN  /\ virtual' = IF ok THEN [virtual EXCEPT ![d] = ReadBackClimate(d, st)] ELSE virtual
           /\ tasks' = [tasks EXCEPT ![id].pc = "svc",
                           ![id].call = setClimateTemperature(d, newTemp)]
    /\ UNCHANGED <<now, lastPlaybackCommandTime, pendingUpdates, expectedStates, colorMemory,
                   timers, nextTimeoutId, nextHandlerId, remote, histVars>>

\* ---------------------------------------------------------- blind actions
BLIND_STEP == 10

\* handleDeviceBlindUp / handleDeviceBlindDown up to
\* `await getCurrentBlindPositionAndUpdate(device)`; delta is +10 or -10.
handleDeviceBlind(deviceId, delta) ==
    /\ IF DeviceType(deviceId) = "blind"
       THEN /\ Suspend(Task("blind_action", deviceId, "read", NoCall, NoKey, delta,
                            Undef, Undef))
            /\ lastEvent' = Event("blind_action", deviceId, "started")
       ELSE /\ lastEvent' = Event("blind_action", deviceId, "ignored")
            /\ UNCHANGED <<tasks, nextHandlerId>>
    /\ UNCHANGED <<now, lastPlaybackCommandTime, pendingUpdates, expectedStates, colorMemory,
                   timers, nextTimeoutId, remote, virtual, calls, applied, localWrites,
                   lastFired, lastFiredBy, lastColor>>

\* getCurrentBlindPositionAndUpdate returns to a blind action: the local state
\* is written (a failed read is caught and yields null, used as 0) and
\* setBlindPosition is called with Math.min(100, current + 10) or
\* Math.max(0, current - 10).
BlindActionStateResponse(id, ok) ==
    /\ id \in DOMAIN tasks
    /\ tasks[id].kind = "blind_action"
    /\ tasks[id].pc = "read"
    /\ LET d == tasks[id].dev
           st == remote[EntityId(d)]
           delta == tasks[id].updateData
           currentPosition == IF ok THEN CurrentBlindPosition(st) ELSE 0
           newPosition == IF delta > 0 THEN Min(100, currentPosition + delta)
                          ELSE Max(0, currentPosition + delta)
       IN  /\ virtual' = IF ok THEN [virtual EXCEPT ![d] = BlindState(CurrentBlindPosition(st))]
                         ELSE virtual
           /\ tasks' = [tasks EXCEPT ![id].pc = "svc",
                           ![id].call = setBlindPosition(d, newPosition)]
    /\ UNCHANGED <<now, lastPlaybackCommandTime, pendingUpdates, expectedStates, colorMemory,
                   timers, nextTimeoutId, nextHandlerId, remote, histVars>>

\* ------------------------------------------------- callHAServiceDirect
REQUEST_TIMEOUT == 10000

\* What http.makeRequest may hand to its callback: an error, or a result with
\* a status code or without one (status Undef; a null result is the same to
\* the code).
Responses ==
    {[arrived |-> TRUE, error |-> TRUE, status |-> Undef]}
        \cup {[arrived |-> TRUE, error |-> FALSE, status |-> st] :
                  st \in {200, 204, 301, 404, 500, Undef}}

\* callHAServiceDirect up to the return of its promise: the 10 s timer is
\* armed and the request is handed to http.makeRequest.  The task is the
\* promise: pc is "pending", "resolved" or "rejected", wake the armed timer,
\* updateData what the callback received.
callHAServiceDirect(call) ==
    /\ Suspend(Task("request", "none", "pending", call, NoKey,
                    [arrived |-> FALSE, error |-> FALSE, status |-> Undef],
                    Undef, now + REQUEST_TIMEOUT))
    /\ UNCHANGED <<now, lastPlaybackCommandTime, pendingUpdates, expectedStates, colorMemory,
                   timers, nextTimeoutId, remote, virtual, histVars>>

\* The 10 s timer fires: reject(new Error('Service call timeout')).
RequestTimeout(id) ==
    /\ id \in DOMAIN tasks
    /\ tasks[id].kind = "request"
    /\ tasks[id].wake # Undef
    /\ tasks[id].wake <= now
    /\ tasks' = [tasks EXCEPT ![id].wake = Undef,
                              ![id].pc = IF @ = "pending" THEN "rejected" ELSE @]
    /\ UNCHANGED <<now, lastPlaybackCommandTime, pendingUpdates, expectedStates, colorMemory,
                   timers, nextTimeoutId, nextHandlerId, remote, virtual, histVars>>

\* The callback of http.makeRequest runs, once: clearTimeout, then reject on
\* an error, resolve on a status of 200..299 (200 when there is none), reject
\* otherwise.  resolve and reject have no effect on a settled promise.
RequestCallback(id, response) ==
    /\ id \in DOMAIN tasks
    /\ tasks[id].kind = "request"
    /\ ~tasks[id].updateData.arrived
    /\ LET statusCode == OrDefault(response.status, 200)
           outcome == IF response.error THEN "rejected"
                      ELSE IF statusCode >= 200 /\ statusCode < 300 THEN "resolved"
                      ELSE "rejected"
       IN  /\ tasks' = [tasks EXCEPT ![id].wake = Undef,
                                     ![id].updateData = response,
                                     ![id].pc = IF @ = "pending" THEN outcome ELSE @]
           /\ remote' = IF outcome = "resolved" THEN RemoteApply(remote, tasks[id].call)
                        ELSE remote
    /\ UNCHANGED <<now, lastPlaybackCommandTime, pendingUpdates, expectedStates, colorMemory,
                   timers, nextTimeoutId, nextHandlerId, virtual, histVars>>

\* ------------------------------------------------------------- dispatchers
\* What a handler does when it has nothing to do: it logs and returns.
Ignore(deviceId) ==
    /\ lastEvent' = Event("ignored", deviceId, "ignored")
    /\ UNCHANGED <<now, progVars, calls, applied, localWrites, lastFired,
                   lastFiredBy, lastColor>>

\* flicApp.on('virtualDeviceUpdate'): findDevice, then route by dimmableType
\* and device type
virtualDeviceUpdate(deviceId, dimmableType, values) ==
    IF deviceId \notin Devices THEN Ignore(deviceId) ELSE
    CASE dimmableType = "Speaker" /\ DeviceType(deviceId) = "playback" ->
            handlePlaybackDeviceUpdate(deviceId, values)
      [] dimmableType = "Speaker" /\ DeviceType(deviceId) = "media_player" ->
            handleMediaDeviceUpdate(deviceId, values)
      [] dimmableType = "Light" /\ DeviceType(deviceId) \in {"light", "color_light"} ->
            handleLightDeviceUpdate(deviceId, values)
      [] dimmableType = "Blind" /\ DeviceType(deviceId) = "climate" ->
            handleClimateDeviceUpdate(deviceId, values)
      [] dimmableType = "Blind" /\ DeviceType(deviceId) = "blind" ->
            handleBlindDeviceUpdate(deviceId, values)
      [] OTHER -> Ignore(deviceId)

\* Variant of the dispatch in which an action outside ACTION_HANDLERS is
\* taken for 'volume up'.
actionMessage_defaultHandler(deviceId, action) ==
    IF deviceId \notin Devices THEN Ignore(deviceId) ELSE
    CASE action = "volume down" -> adjustDeviceVolume(deviceId, -10)
      [] action = "brightness up" -> handleDeviceBrightnessUp(deviceId)
      [] action = "brightness down" -> handleDeviceBrightnessDown(deviceId)
      [] action = "temp up" -> handleDeviceTemperatureUp(deviceId)
      [] action = "temp down" -> handleDeviceTemperatureDown(deviceId)
      [] action = "position up" -> handleDeviceBlind(deviceId, BLIND_STEP)
      [] action = "position down" -> handleDeviceBlind(deviceId, -BLIND_STEP)
      [] OTHER -> adjustDeviceVolume(deviceId, 10)

\* flicApp.on('actionMessage') once the message is split: findDevice, then
\* ACTION_HANDLERS[action]
actionMessage(deviceId, action) ==
    IF deviceId \notin Devices THEN Ignore(deviceId) ELSE
    CASE action = "volume up" -> adjustDeviceVolume(deviceId, 10)
      [] action = "volume down" -> adjustDeviceVolume(deviceId, -10)
      [] action = "brightness up" -> handleDeviceBrightnessUp(deviceId)
      [] action = "brightness down" -> handleDeviceBrightnessDown(deviceId)
      [] action = "temp up" -> handleDeviceTemperatureUp(deviceId)
      [] action = "temp down" -> handleDeviceTemperatureDown(deviceId)
      [] action = "position up" -> handleDeviceBlind(deviceId, BLIND_STEP)
      [] action = "position down" -> handleDeviceBlind(deviceId, -BLIND_STEP)
      [] OTHER -> Ignore(deviceId)

\* parts.join(' ')
RECURSIVE JoinParts(_)
JoinParts(parts) ==
    IF Len(parts) = 1 THEN parts[1] ELSE parts[1] \o " " \o JoinParts(Tail(parts))

\* flicApp.on('actionMessage') from the start: parts is
\* message.toLowerCase().split(' '); "{device-id} {action}" needs two parts.
actionMessageReceived(parts) ==
    IF Len(parts) >= 2
    THEN actionMessage(parts[1], JoinParts(Tail(parts)))
    ELSE Ignore("none")

\* ------------------------------------------------------------ environment
\* Someone else changes the colour of a light on the remote side.
RemoteColorChange(e, hs) ==
    /\ e \in LightEntities
    /\ remote[e].hs_color # hs
    /\ remote' = [remote EXCEPT ![e].hs_color = hs]
    /\ UNCHANGED <<now, lastPlaybackCommandTime, pendingUpdates, expectedStates, colorMemory,
                   timers, nextTimeoutId, nextHandlerId, tasks, virtual, histVars>>


\* ================================================= debounce specification
\* Brightness twists of one plain light: 100/255 and 200/255.
BrightnessInputs == {392, 784}

LightTwist ==
    \E b \in BrightnessInputs :
        virtualDeviceUpdate("living_room_light", "Light", LightValues(b, Undef, Undef, Undef))

NextDebounce ==
    \/ LightTwist
    \/ \E id \in DOMAIN timers : TimerFire(id)
    \/ \E id \in DOMAIN tasks, ok \in BOOLEAN : DebouncedServiceResponse(id, ok)
    \/ \E id \in DOMAIN tasks, ok \in BOOLEAN : ReadBackResponse(id, ok)
    \/ Tick

SpecDebounce == Init /\ [][NextDebounce]_vars

\* ----------------------------------------------------------------- C1-C3
CallsFor(key) == SelectSeq(calls, LAMBDA c : c.key = key)
WritesFor(key) == SelectSeq(localWrites, LAMBDA w : w.key = key)
AppliedIds == {applied[i].timeoutId : i \in 1..Len(applied)}
CallKeys == {calls[i].key : i \in 1..Len(calls)}

\* C1: in a run of debouncedDeviceUpdate calls on one key, each made less than
\* DEBOUNCE_DELAY after the one before, only the last call's updateFunction is
\* invoked, once, and every call makes its immediate local write with its own
\* value, in call order.
C1_BurstCoalesces ==
    \A key \in CallKeys :
        LET cs == CallsFor(key)
            ws == WritesFor(key)
        IN  /\ \A i \in 1..(Len(cs) - 1) :
                   cs[i + 1].quick => cs[i].timeoutId \notin AppliedIds
            /\ \A i, j \in 1..Len(applied) :
                   applied[i].timeoutId = applied[j].timeoutId => i = j
            /\ cs[Len(cs)].timeoutId \notin DOMAIN timers
                   => cs[Len(cs)].timeoutId \in AppliedIds
            /\ Len(ws) = Len(cs)
            /\ \A i \in 1..Len(ws) : ws[i].updateData = cs[i].updateData

\* C2: updateFunction is never invoked for an update that a later call on the
\* same key superseded before its timer fired.
C2_SupersededNeverApplied ==
    \A i \in 1..Len(applied) : ~applied[i].superseded

\* C3: at most one armed debounce timer per key.
C3_OneTimerPerKey ==
    \A i, j \in DOMAIN timers : timers[i].key = timers[j].key => i = j


\* ================================================= cooldown specification
\* Dial positions of the playback device: down, inside the dead zone (on its
\* edge), up.
PlaybackInputs == {300, 600, 800}
VolumeInputs == {300}
VolumeActions == {"volume up", "volume down"}

PlaybackTwist ==
    \E v \in PlaybackInputs :
        virtualDeviceUpdate("playback_control", "Speaker", SpeakerValues(v))

VolumeTwist ==
    /\ nextTimeoutId <= MaxTwists
    /\ \E d \in MediaDevices, v \in VolumeInputs :
           virtualDeviceUpdate(d, "Speaker", SpeakerValues(v))

VolumeAction ==
    \E d \in MediaDevices, a \in VolumeActions : actionMessage(d, a)

NextCooldown ==
    \/ PlaybackTwist
    \/ VolumeTwist
    \/ VolumeAction
    \/ \E id \in DOMAIN timers : TimerFire(id)
    \/ \E id \in DOMAIN tasks, ok \in BOOLEAN : DebouncedServiceResponse(id, ok)
    \/ \E id \in DOMAIN tasks, ok \in BOOLEAN : ReadBackResponse(id, ok)
    \/ \E id \in DOMAIN tasks, ok \in BOOLEAN : GestureStateResponse(id, ok)
    \/ \E id \in DOMAIN tasks, ok \in BOOLEAN : GestureServiceResponse(id, ok)
    \/ \E id \in DOMAIN tasks, ok \in BOOLEAN : VolumeActionStateResponse(id, ok)
    \/ \E id \in DOMAIN tasks, ok \in BOOLEAN : ActionServiceResponse(id, ok)
    \/ TickBusy
    \/ Idle

SpecCooldown == Init /\ [][NextCooldown]_vars

\* ----------------------------------------------------------------- C4-C8
\* A step in which a volume or playback command passes the gate: the handler
\* parks at an await or arms a debounce timer.
CommandPasses ==
    /\ lastEvent'.outcome = "passed"
    /\ nextHandlerId' # nextHandlerId \/ nextTimeoutId' # nextTimeoutId

\* A step in which a beyond-dead-zone playback gesture passes the gate.
GesturePasses ==
    /\ nextHandlerId' # nextHandlerId
    /\ tasks'[HandlerTask(nextHandlerId)].kind = "gesture"

\* The gesture tasks that end in this step.
GesturesDone == {id \in DOMAIN tasks \ DOMAIN tasks' : tasks[id].kind = "gesture"}

\* C4: with W = 2500 and the last playback command fired at lastFired, no
\* volume or playback command attempted strictly inside (lastFired,
\* lastFired + W) passes the gate, and a command is only blocked inside a
\* window.
C4_BlockedInsideWindow ==
    [][/\ CommandPasses
            => ~(/\ lastFired # Undef
                 /\ lastFired < now
                 /\ now < lastFired + PLAYBACK_COOLDOWN_MS)
       /\ (lastEvent' # lastEvent /\ lastEvent'.outcome = "blocked")
            => (lastFired # Undef /\ now < lastFired + PLAYBACK_COOLDOWN_MS)]_vars

\* C5: after a playback gesture has passed the gate, no second gesture passes
\* it until 2500 ms later, also while the first one is awaiting its response.
C5_NoRapidFire ==
    [][GesturePasses
           => (lastFired = Undef \/ now - lastFired >= PLAYBACK_COOLDOWN_MS)]_vars

\* C6: the gate is global: during the 2500 ms after a playback command
\* fired through a playback device, no volume action and no volume twist
\* passes on any other device.
C6_BlocksOtherDevices ==
    [][\A p \in PlaybackDevices, d \in MediaDevices :
          (/\ lastFiredBy = p
           /\ lastFired < now
           /\ now < lastFired + PLAYBACK_COOLDOWN_MS)
          => ~(\/ /\ nextHandlerId' # nextHandlerId
                  /\ tasks'[HandlerTask(nextHandlerId)].kind = "volume_action"
                  /\ tasks'[HandlerTask(nextHandlerId)].dev = d
               \/ /\ nextTimeoutId' # nextTimeoutId
                  /\ timers'[nextTimeoutId].key = Key(d, "volume"))]_vars

\* C7 (as stated): a gesture that fails leaves lastPlaybackCommandTime as it
\* was, a gesture that succeeds sets it to the current time.
C7_MarkedOnSuccessOnly ==
    [][\A id \in GesturesDone :
          IF lastEvent'.outcome = "failed"
          THEN lastPlaybackCommandTime' = lastPlaybackCommandTime
          ELSE lastPlaybackCommandTime' = now]_vars

\* C7 (amended): lastPlaybackCommandTime is written exactly when a gesture
\* that passed the gate ends, whether its state read and service call
\* succeeded or failed, and it is set to the time the gesture arrived.
C7_MarkedPerPassedGesture ==
    [][/\ lastPlaybackCommandTime' # lastPlaybackCommandTime => GesturesDone # {}
       /\ \A id \in GesturesDone :
              lastPlaybackCommandTime' = tasks[id].currentTime]_vars

\* C7 witness: a failed gesture has set the timestamp to its arrival time,
\* which is in the past.
C7_Witness ==
    /\ lastEvent.kind = "playback_done"
    /\ lastEvent.outcome = "failed"
    /\ lastPlaybackCommandTime = lastFired
    /\ now > lastPlaybackCommandTime

\* C8: lastPlaybackCommandTime only changes when a playback gesture ends, a
\* gesture only starts from a dial position more than 0.1 off centre, and a
\* position within 0.1 of the centre parks no handler, arms no timer and
\* leaves the remote alone.
C8_VolumeAndSmallMovesDoNotMark ==
    [][/\ lastPlaybackCommandTime' # lastPlaybackCommandTime
            => /\ GesturesDone # {}
               /\ \A id \in GesturesDone : 10 * Abs(tasks[id].updateData - CENTER) > Scale
       /\ GesturePasses
            => 10 * Abs(tasks'[HandlerTask(nextHandlerId)].updateData - CENTER) > Scale
       /\ (lastEvent' # lastEvent /\ lastEvent'.kind \in {"volume_twist", "volume_action"})
            => lastPlaybackCommandTime' = lastPlaybackCommandTime
       /\ (lastEvent' # lastEvent /\ lastEvent'.outcome = "deadzone")
            => UNCHANGED <<lastPlaybackCommandTime, tasks, timers, remote>>]_vars

\* C8 witness: a volume action and a volume twist have passed, the dial was
\* last moved inside the dead zone, and the timestamp is still the initial one.
C8_Witness ==
    /\ lastEvent.outcome = "deadzone"
    /\ \E id \in DOMAIN tasks : tasks[id].kind = "volume_action"
    /\ nextTimeoutId > 1
    /\ lastPlaybackCommandTime = 0


\* =================================================== colour specification
\* Twists of the colour strip: saturation to white, saturation to 60 %, hue to
\* 240 degrees with saturation 60 %, brightness to 100/255.
ColorInputs ==
    {LightValues(Undef, Undef, 0, Undef),
     LightValues(Undef, Undef, 600, Undef),
     LightValues(Undef, 667, 600, Undef),
     LightValues(392, Undef, Undef, Undef)}
\* What the remote may report for a light that shows white.
WhiteReports == {<<0, 0>>}

ColorTwist ==
    /\ nextTimeoutId <= MaxColorTwists
    /\ \E values \in ColorInputs :
           virtualDeviceUpdate("kitchen_color_light", "Light", values)

NextColor ==
    \/ ColorTwist
    \/ \E id \in DOMAIN timers : TimerFire(id)
    \/ \E id \in DOMAIN tasks, ok \in BOOLEAN : ColorStateResponse(id, ok)
    \/ \E id \in DOMAIN tasks, ok \in BOOLEAN : DebouncedServiceResponse(id, ok)
    \/ \E id \in DOMAIN tasks : SettleDone(id)
    \/ \E id \in DOMAIN tasks, ok \in BOOLEAN : ReadBackResponse(id, ok)
    \/ \E hs \in WhiteReports : RemoteColorChange("light.kitchen_color_strip", hs)
    \/ Tick

\* The start-up read of the strip may have failed.
InitColor == \E stripOk \in BOOLEAN : InitWith(stripOk)

SpecColor == InitColor /\ [][NextColor]_vars

\* ---------------------------------------------------------------- C9-C10
\* C9: every entry of the colour memory has saturation above 5, and
\* rememberColor with a saturation of 5 or less leaves the memory as it is.
C9_MemoryIsMeaningful ==
    /\ \A d \in DOMAIN colorMemory :
           colorMemory[d].saturation > MEANINGFUL_SATURATION_THRESHOLD
    /\ \A d \in LightDevices, hue \in {0, 120, 240}, sat \in 0..5 :
           rememberColor(colorMemory, d, hue, sat) = colorMemory

\* C9 witness: applyColorUpdate has sent (and offered to the memory) a white
\* colour, the remote shows white, and the memory still holds the old colour.
C9_Witness ==
    /\ lastColor.dev = "kitchen_color_light"
    /\ lastColor.sent[2] <= 5
    /\ remote["light.kitchen_color_strip"].hs_color[2] <= 5
    /\ "kitchen_color_light" \in DOMAIN colorMemory
    /\ colorMemory["kitchen_color_light"] = [hue |-> 120, saturation |-> 80]

\* C10: when applyColorUpdate observes a saturation of 5 or less and the update
\* raises the saturation above 5 without a hue, the hue it sends is the
\* remembered hue of the device (the observed hue if nothing is remembered).
C10_HueRestoredFromMemory ==
    (/\ lastColor.dev # "none"
     /\ lastColor.observed # <<>>
     /\ lastColor.observed[2] <= 5
     /\ lastColor.update[1] = Undef
     /\ lastColor.update[2] # Undef
     /\ RoundDiv(lastColor.update[2] * 100, Scale) > 5)
    => lastColor.sent[1] = (IF lastColor.remembered # <<>> THEN lastColor.remembered[1]
                            ELSE lastColor.observed[1])

\* C10, nothing remembered: the start-up read failed, the remote reported
\* white before the first apply, and the observed hue was sent.
C10_WitnessFallback ==
    /\ lastColor.dev = "kitchen_color_light"
    /\ lastColor.observed = <<0, 0>>
    /\ lastColor.update = <<Undef, 600>>
    /\ lastColor.remembered = <<>>
    /\ lastColor.sent = <<0, 60>>

\* C10 witness: the strip was at hue 120, saturation 80; it was dragged to
\* white, the remote then reported <<0, 0>>, and the drag back to 60 % sent
\* hue 120 with saturation 60.
C10_Witness ==
    /\ lastColor.dev = "kitchen_color_light"
    /\ lastColor.observed = <<0, 0>>
    /\ lastColor.update = <<Undef, 600>>
    /\ lastColor.remembered = <<120, 80>>
    /\ lastColor.sent = <<120, 60>>

\* ------------------------------------------------------------------- C11
\* The step in which the suspended applyColorUpdate id computes its colour.
ColorComputed(id) ==
    /\ id \in DOMAIN tasks
    /\ id \in DOMAIN tasks'
    /\ tasks[id].kind = "apply"
    /\ tasks[id].pc = "read"
    /\ tasks'[id].pc = "svc"

\* Fallback pairs offered to getRememberedColor in the pure check.
FallbackHues == {0, 240}
FallbackSats == {60, 100}

\* C11: getRememberedColor returns the stored pair of the device when there
\* is one and the supplied fallback pair otherwise, and the memory is not
\* changed by it: when applyColorUpdate recalls a colour, the pair it gets is
\* the stored one (else the hue and saturation it passed), and the memory
\* after the step differs from the one before only by the two rememberColor
\* calls (observed colour, final colour).
C11_RecallReturnsStoredOrFallback ==
    [][/\ \A d \in LightDevices, fh \in FallbackHues, fs \in FallbackSats :
              getRememberedColor(colorMemory, d, fh, fs)
                  = IF d \in DOMAIN colorMemory THEN colorMemory[d]
                    ELSE [hue |-> fh, saturation |-> fs]
       /\ \A id \in DOMAIN tasks :
              ColorComputed(id) =>
                 LET c == lastColor'
                     d == tasks[id].dev
                     mem1 == IF c.observed # <<>>
                             THEN rememberColor(colorMemory, d, c.observed[1], c.observed[2])
                             ELSE colorMemory
                     passedHue == IF c.update[1] # Undef
                                  THEN RoundDiv(c.update[1] * 360, Scale)
                                  ELSE IF c.observed # <<>> THEN c.observed[1] ELSE 0
                     passedSat == RoundDiv(c.update[2] * 100, Scale)
                 IN  /\ c.recalled # <<>> =>
                            c.recalled = IF d \in DOMAIN mem1
                                         THEN <<mem1[d].hue, mem1[d].saturation>>
                                         ELSE <<passedHue, passedSat>>
                     /\ colorMemory' = rememberColor(mem1, d, c.sent[1], c.sent[2])]_vars

\* C11 witness: a recall returned the stored pair <<120, 80>> although the
\* fallback offered was the observed hue 0 with saturation 60.
C11_Witness ==
    /\ lastColor.recalled = <<120, 80>>
    /\ lastColor.observed = <<0, 0>>
    /\ lastColor.update = <<Undef, 600>>

\* C11, nothing stored: the recall returned the fallback pair it was given.
C11_WitnessFallback ==
    /\ lastColor.recalled = <<0, 60>>
    /\ lastColor.remembered = <<>>

\* ------------------------------------------------------------------- C12
\* The local state st of a device shows the value requested by debounce call c.
LocalShows(st, c) ==
    CASE c.key[2] = "volume" -> st.volume = c.updateData
      [] c.key[2] = "brightness" -> st.brightness = c.updateData
      [] c.key[2] = "color" ->
            /\ c.updateData.hue # Undef => st.hue = c.updateData.hue
            /\ c.updateData.saturation # Undef => st.saturation = c.updateData.saturation
      [] c.key[2] = "colortemp" -> st.colorTemperature = c.updateData
      [] c.key[2] = "temperature" -> st = ClimatePosition(c.key[1], c.updateData)
      [] OTHER -> FALSE

\* C12: every debouncedDeviceUpdate call, on every channel, has written the
\* requested value to the local virtual device state when the handler that made
\* it returns: right after the step the local state of the channel is the
\* value of the call.
C12_LocalWriteOnEveryChannel ==
    [][\A i \in (Len(calls) + 1)..Len(calls') :
           LocalShows(virtual'[calls'[i].key[1]], calls'[i])]_vars

\* ------------------------------------------------------------------- C13
\* The debounced applies whose updateFunction rejects in this step: parked at
\* the service call or at applyColorUpdate's state read, and gone afterwards.
AppliesFailed ==
    {id \in DOMAIN tasks \ DOMAIN tasks' :
        tasks[id].kind = "apply" /\ tasks[id].pc \in {"svc", "read"}}
\* All the applies that end in this step.
AppliesDone == {id \in DOMAIN tasks \ DOMAIN tasks' : tasks[id].kind = "apply"}

\* C13: when the updateFunction of a debounced update rejects, the error is
\* swallowed: the callback ends, nothing is re-armed or retried (no timer, no
\* task, no further updateFunction invocation), no other state is touched, and
\* the entries of the key are removed as they are when an apply succeeds;
\* updateFunction runs at most once per timer.
C13_FailureSwallowedNoRetry ==
    [][/\ \A id \in AppliesFailed :
              /\ DOMAIN tasks' = DOMAIN tasks \ {id}
              /\ UNCHANGED <<timers, nextTimeoutId, nextHandlerId, applied, calls, remote,
                             virtual, colorMemory, lastPlaybackCommandTime>>
       /\ \A id \in AppliesDone :
              /\ tasks[id].key \notin DOMAIN pendingUpdates'
              /\ tasks[id].key \notin DOMAIN expectedStates'
       /\ \A i, j \in 1..Len(applied') :
              applied'[i].timeoutId = applied'[j].timeoutId => i = j]_vars

\* C13 witness: the one colour apply that was started has ended without
\* changing the remote or the local state, and no entry, timer or task is left.
C13_Witness ==
    /\ Len(applied) = 1
    /\ applied[1].key = Key("kitchen_color_light", "color")
    /\ nextTimeoutId = 2
    /\ tasks = EmptyMap
    /\ timers = EmptyMap
    /\ pendingUpdates = EmptyMap
    /\ expectedStates = EmptyMap
    /\ remote = InitRemote
    /\ virtual = InitVirtual(TRUE)

\* ------------------------------------------------------------------- C14
\* The tasks whose service call is answered in this step.
ServiceAnswered ==
    {id \in DOMAIN tasks :
        /\ tasks[id].kind \in {"apply", "volume_action", "light_off", "brightness_action",
                              "temperature_action"}
        /\ tasks[id].pc = "svc"
        /\ (id \notin DOMAIN tasks' \/ tasks'[id].pc # "svc")}

\* C14: a service call that fails ends its update without touching the local
\* state (no rollback of the optimistic write, no read-back); an update goes
\* on to its read-back only from a service call the remote accepted.
C14_NoRollbackNoReadBackOnFailure ==
    [][/\ \A id \in ServiceAnswered :
              /\ virtual' = virtual
              /\ id \notin DOMAIN tasks' => remote' = remote
              /\ id \in DOMAIN tasks' =>
                     /\ tasks'[id].pc \in {"settle", "readback"}
                     /\ remote' = RemoteApply(remote, tasks[id].call)
       /\ \A id \in DOMAIN tasks' :
              (tasks'[id].pc \in {"settle", "readback"}
                 /\ (id \notin DOMAIN tasks \/ tasks[id].pc # tasks'[id].pc))
              => /\ id \in DOMAIN tasks
                 /\ tasks[id].pc \in {"svc", "settle"}]_vars

\* C14 witness: the brightness apply of the strip was rejected; the local
\* state still shows the requested 100/255 while the remote is at 200.
C14_Witness ==
    /\ Len(applied) = 1
    /\ applied[1].key = Key("kitchen_color_light", "brightness")
    /\ nextTimeoutId = 2
    /\ tasks = EmptyMap
    /\ timers = EmptyMap
    /\ virtual["kitchen_color_light"].brightness = 100
    /\ remote["light.kitchen_color_strip"].brightness = 200

\* ================================================= playback specification
\* What the television may report as its state when the script starts.
PlaybackStates == {"playing", "paused", "idle"}

InitPlayback ==
    \E st \in PlaybackStates :
        /\ now = StartTime
        /\ lastPlaybackCommandTime = 0
        /\ pendingUpdates = EmptyMap
        /\ expectedStates = EmptyMap
        /\ colorMemory = InitMemory(TRUE)
        /\ timers = EmptyMap
        /\ nextTimeoutId = 1
        /\ nextHandlerId = 1
        /\ tasks = EmptyMap
        /\ remote = [InitRemote EXCEPT !["media_player.living_room_tv"].state = st]
        /\ virtual = InitVirtual(TRUE)
        /\ calls = <<>>
        /\ applied = <<>>
        /\ localWrites = <<>>
        /\ lastFired = Undef
        /\ lastFiredBy = "none"
        /\ lastEvent = Event("none", "none", "none")
        /\ lastColor = NoColor

NextPlayback ==
    \/ PlaybackTwist
    \/ \E id \in DOMAIN tasks, ok \in BOOLEAN : GestureStateResponse(id, ok)
    \/ \E id \in DOMAIN tasks, ok \in BOOLEAN : GestureServiceResponse(id, ok)
    \/ TickBusy
    \/ Idle

SpecPlayback == InitPlayback /\ [][NextPlayback]_vars

\* ------------------------------------------------------------------- C15
\* The service a twist-up gesture is to call for the state it read.
ServiceForState(currentState) ==
    IF currentState = "paused" THEN "media_play"
    ELSE IF currentState = "playing" THEN "media_next_track"
    ELSE "media_play"

\* How each gesture chooses its call: a gesture that passes the gate with
\* volume < 0.4 issues media_pause at once, whatever the state; one with
\* volume > 0.6 first reads the state and then issues media_play for
\* 'paused', media_next_track for 'playing' and media_play for anything else;
\* a gesture whose call is in flight issues no other.
GestureChoosesCall ==
    /\ GesturePasses =>
          LET t == tasks'[HandlerTask(nextHandlerId)]
          IN  IF 10 * t.updateData < 4 * Scale
              THEN t.pc = "svc" /\ t.call.service = "media_pause"
              ELSE 10 * t.updateData > 6 * Scale /\ t.pc = "read" /\ t.call = NoCall
    /\ \A id \in DOMAIN tasks :
          tasks[id].kind = "gesture" =>
             /\ (tasks[id].pc = "read" /\ id \in DOMAIN tasks' /\ tasks'[id] # tasks[id])
                  => /\ tasks'[id].pc = "svc"
                     /\ tasks'[id].call.service
                            = ServiceForState(remote[EntityId(tasks[id].dev)].state)
                     /\ tasks'[id].call.entity = EntityId(tasks[id].dev)
             /\ (tasks[id].pc = "svc" /\ id \in DOMAIN tasks') => tasks'[id] = tasks[id]

C15_WitnessNextTrack ==
    \E id \in DOMAIN tasks :
        /\ tasks[id].pc = "svc"
        /\ tasks[id].call.service = "media_next_track"
        /\ remote["media_player.living_room_tv"].state = "playing"

C15_WitnessPauseWhilePaused ==
    \E id \in DOMAIN tasks :
        /\ tasks[id].pc = "svc"
        /\ tasks[id].call.service = "media_pause"
        /\ remote["media_player.living_room_tv"].state = "paused"

\* =================================================== volume specification
\* Volumes (percent) the television may be at when the script starts.
VolumeLevels == {0, 5, 40, 95, 100}

InitVolume ==
    \E v \in VolumeLevels :
        /\ now = StartTime
        /\ lastPlaybackCommandTime = 0
        /\ pendingUpdates = EmptyMap
        /\ expectedStates = EmptyMap
        /\ colorMemory = InitMemory(TRUE)
        /\ timers = EmptyMap
        /\ nextTimeoutId = 1
        /\ nextHandlerId = 1
        /\ tasks = EmptyMap
        /\ remote = [InitRemote EXCEPT !["media_player.living_room_tv"].volume_level = v]
        /\ virtual = [InitVirtual(TRUE) EXCEPT !["livingroom_tv"] = SpeakerState(v)]
        /\ calls = <<>>
        /\ applied = <<>>
        /\ localWrites = <<>>
        /\ lastFired = Undef
        /\ lastFiredBy = "none"
        /\ lastEvent = Event("none", "none", "none")
        /\ lastColor = NoColor

NextVolume ==
    \/ VolumeAction
    \/ \E id \in DOMAIN tasks, ok \in BOOLEAN : VolumeActionStateResponse(id, ok)
    \/ \E id \in DOMAIN tasks, ok \in BOOLEAN : ActionServiceResponse(id, ok)
    \/ \E id \in DOMAIN tasks, ok \in BOOLEAN : ReadBackResponse(id, ok)
    \/ TickBusy

SpecVolume == InitVolume /\ [][NextVolume]_vars

C16_WitnessClampHigh ==
    \E id \in DOMAIN tasks :
        /\ tasks[id].kind = "volume_action"
        /\ tasks[id].updateData = 10
        /\ remote[EntityId(tasks[id].dev)].volume_level = 95
        /\ tasks[id].call.value = 100

C16_WitnessClampLow ==
    \E id \in DOMAIN tasks :
        /\ tasks[id].kind = "volume_action"
        /\ tasks[id].updateData = -10
        /\ remote[EntityId(tasks[id].dev)].volume_level = 5
        /\ tasks[id].call.value = 0

\* ================================================ brightness specification
\* What the ceiling light may report when the script starts: off, or on at
\* a brightness of 10, 25, 26 or 255.
LightReports ==
    {EntityState("off", Undef, Undef, <<>>)}
        \cup {EntityState("on", Undef, b, <<>>) : b \in {10, 25, 26, 255}}

\* Dial positions of the brightness channel: 0, 0.001 (rounds to 0 of 255),
\* 0.002 (rounds to 1 of 255) and 1.
DimInputs == {0, 1, 2, Scale}
BrightnessActions == {"brightness up", "brightness down"}

InitBrightness ==
    \E st \in LightReports :
        /\ now = StartTime
        /\ lastPlaybackCommandTime = 0
        /\ pendingUpdates = EmptyMap
        /\ expectedStates = EmptyMap
        /\ colorMemory = InitMemory(TRUE)
        /\ timers = EmptyMap
        /\ nextTimeoutId = 1
        /\ nextHandlerId = 1
        /\ tasks = EmptyMap
        /\ remote = [InitRemote EXCEPT !["light.living_room_ceiling"] = st]
        /\ virtual = [InitVirtual(TRUE) EXCEPT
                         !["living_room_light"] = ReadBackLight("living_room_light", st)]
        /\ calls = <<>>
        /\ applied = <<>>
        /\ localWrites = <<>>
        /\ lastFired = Undef
        /\ lastFiredBy = "none"
        /\ lastEvent = Event("none", "none", "none")
        /\ lastColor = NoColor

DimTwist ==
    /\ nextTimeoutId <= MaxTwists
    /\ \E b \in DimInputs :
           virtualDeviceUpdate("living_room_light", "Light", LightValues(b, Undef, Undef, Undef))

BrightnessAction ==
    \E a \in BrightnessActions : actionMessage("living_room_light", a)

NextBrightness ==
    \/ DimTwist
    \/ BrightnessAction
    \/ \E id \in DOMAIN timers : TimerFire(id)
    \/ \E id \in DOMAIN tasks, ok \in BOOLEAN : BrightnessActionStateResponse(id, ok)
    \/ \E id \in DOMAIN tasks, ok \in BOOLEAN : DebouncedServiceResponse(id, ok)
    \/ \E id \in DOMAIN tasks, ok \in BOOLEAN : ActionServiceResponse(id, ok)
    \/ \E id \in DOMAIN tasks, ok \in BOOLEAN : ReadBackResponse(id, ok)
    \/ Tick

SpecBrightness == InitBrightness /\ [][NextBrightness]_vars

\* ------------------------------------------------------------------- C17
\* On the paths that start from a controller event, zero brightness powers
\* the light off and every brightness sent is an integer in 1..255: no call
\* in flight and no armed brightness timer carries a brightness outside
\* 1..255, a continuous update that rounds to 0 arms no timer and calls
\* turn_off, and a brightness action whose new brightness is 0 calls turn_off.
ZeroPowersOffOnEveryPath ==
    /\ \A id \in DOMAIN tasks' :
          tasks'[id].call.field = "brightness"
             => tasks'[id].call.service = "turn_on" /\ tasks'[id].call.value \in 1..255
    /\ \A i \in DOMAIN timers' :
          timers'[i].key[2] = "brightness" => timers'[i].updateData \in 1..255
    /\ (nextHandlerId' # nextHandlerId /\ lastEvent'.outcome = "power_off")
          => /\ tasks'[HandlerTask(nextHandlerId)].call.service = "turn_off"
             /\ timers' = timers
    /\ \A id \in DOMAIN tasks :
          (tasks[id].kind = "brightness_action" /\ tasks[id].pc = "read"
              /\ tasks'[id] # tasks[id])
             => \E currentBrightness \in {CurrentBrightness(remote[EntityId(tasks[id].dev)]), 0} :
                   LET target == currentBrightness + tasks[id].updateData
                   IN  IF target <= 0
                       THEN tasks'[id].call.service = "turn_off"
                       ELSE /\ tasks'[id].call.field = "brightness"
                            /\ tasks'[id].call.value = Min(255, target)

\* Brightness values offered to setLightBrightness in the pure check.
SetBrightnessInputs == {0, 1, 128, 255}

C17_WitnessTwist ==
    /\ lastEvent.outcome = "power_off"
    /\ \E id \in DOMAIN tasks : tasks[id].kind = "light_off"
    /\ timers = EmptyMap
    /\ calls = <<>>

\* C17, smallest brightness: 'brightness down' at 26 sends brightness 1.
C17_WitnessOne ==
    \E id \in DOMAIN tasks :
        /\ tasks[id].kind = "brightness_action"
        /\ tasks[id].call.field = "brightness"
        /\ tasks[id].call.value = 1

\* ================================================ round-trip specification
\* Every dial position of the brightness channel that does not round to 0:
\* round(x * 255 / 1000) takes every value in 1..255.
RoundTripInputs == 2..Scale

RoundTripTwist ==
    /\ nextTimeoutId <= MaxTwists
    /\ \E x \in RoundTripInputs :
           virtualDeviceUpdate("living_room_light", "Light", LightValues(x, Undef, Undef, Undef))

NextRoundTrip ==
    \/ RoundTripTwist
    \/ \E id \in DOMAIN timers : TimerFire(id)
    \/ \E id \in DOMAIN tasks, ok \in BOOLEAN : DebouncedServiceResponse(id, ok)
    \/ \E id \in DOMAIN tasks, ok \in BOOLEAN : ReadBackResponse(id, ok)
    \/ Tick

SpecRoundTrip == InitBrightness /\ [][NextRoundTrip]_vars

\* ------------------------------------------------------------------- C18
\* The brightness b of the one apply made so far was accepted by the remote
\* and the read-back that followed has written the local state (the
\* optimistic write sets a colour temperature, the read-back of a plain
\* light sets none).
RoundTripDone(b) ==
    /\ Len(applied) = 1
    /\ applied[1].key = Key("living_room_light", "brightness")
    /\ applied[1].updateData = b
    /\ tasks = EmptyMap
    /\ timers = EmptyMap
    /\ remote["light.living_room_ceiling"].state = "on"
    /\ remote["light.living_room_ceiling"].brightness = b
    /\ virtual["living_room_light"].colorTemperature = Undef

C18_WitnessFull ==
    /\ RoundTripDone(255)
    /\ virtual["living_room_light"].brightness = 255

\* C18, every value: each b in 1..255 is applied by some dial position.
C18_WitnessMiddle ==
    /\ RoundTripDone(128)
    /\ virtual["living_room_light"].brightness = 128


\* =================================================== climate specification
\* Target temperatures (tenths of a degree) the thermostat may report when
\* the script starts: none, 16.0, 21.5, 30.0, and 10.0 / 35.0 outside the range
\* the script is configured with.
TargetTemperatures == {Undef, 100, 160, 215, 300, 350}

\* Dial positions of a climate device: 0, 0.333, 0.5 and 1.
ClimateInputs == {0, 333, 500, Scale}
TemperatureActions == {"temp up", "temp down"}

InitClimate ==
    \E t \in TargetTemperatures :
        /\ now = StartTime
        /\ lastPlaybackCommandTime = 0
        /\ pendingUpdates = EmptyMap
        /\ expectedStates = EmptyMap
        /\ colorMemory = InitMemory(TRUE)
        /\ timers = EmptyMap
        /\ nextTimeoutId = 1
        /\ nextHandlerId = 1
        /\ tasks = EmptyMap
        /\ remote = [InitRemote EXCEPT !["climate.living_room"].temperature = t]
        /\ virtual = [InitVirtual(TRUE) EXCEPT
                         !["living_room_thermostat"] =
                             ReadBackClimate("living_room_thermostat", ClimateState("heat", t))]
        /\ calls = <<>>
        /\ applied = <<>>
        /\ localWrites = <<>>
        /\ lastFired = Undef
        /\ lastFiredBy = "none"
        /\ lastEvent = Event("none", "none", "none")
        /\ lastColor = NoColor

ClimateTwist ==
    /\ nextTimeoutId <= MaxTwists
    /\ \E d \in ClimateDevices, position \in ClimateInputs :
           virtualDeviceUpdate(d, "Blind", BlindValues(position))

\* temp up / temp down on the thermostat whose reported temperature varies
TemperatureAction ==
    \E a \in TemperatureActions : actionMessage("living_room_thermostat", a)

NextClimate ==
    \/ ClimateTwist
    \/ TemperatureAction
    \/ \E id \in DOMAIN timers : TimerFire(id)
    \/ \E id \in DOMAIN tasks, ok \in BOOLEAN : TemperatureActionStateResponse(id, ok)
    \/ \E id \in DOMAIN tasks, ok \in BOOLEAN : DebouncedServiceResponse(id, ok)
    \/ \E id \in DOMAIN tasks, ok \in BOOLEAN : ActionServiceResponse(id, ok)
    \/ \E id \in DOMAIN tasks, ok \in BOOLEAN : ReadBackResponse(id, ok)
    \/ Tick

SpecClimate == InitClimate /\ [][NextClimate]_vars

\* ------------------------------------------------------------------- C19
\* The temperatures (tenths) the dial positions of ClimateInputs stand for on
\* a device with range [lo, hi] degrees: lo + p * (hi - lo), to one decimal.
TwistTemperatures(lo, hi) ==
    {lo * 10 + RoundDiv(position * (hi - lo), Scale \div 10) : position \in ClimateInputs}

\* C19: a twist position p on a climate device with range [min, max] is
\* converted to min + p * (max - min) rounded to one decimal (0.5 on [16, 30]
\* gives 23.0), and every temperature sent by set_temperature, from a twist or
\* from a temp up / temp down action (current +/- 1, clamped), lies within
\* the device's [min, max].
C19_TemperatureWithinRange ==
    [][/\ PositionToTemperature("living_room_thermostat", Scale \div 2) = 230
       /\ \A i \in (Len(calls) + 1)..Len(calls') :
              LET d == calls'[i].key[1]
              IN  calls'[i].key[2] = "temperature"
                     => calls'[i].updateData \in TwistTemperatures(TempMin(d), TempMax(d))
       /\ \A id \in DOMAIN tasks' :
              tasks'[id].call.service = "set_temperature"
                 => /\ tasks'[id].call.value >= TempMin(tasks'[id].dev) * 10
                    /\ tasks'[id].call.value <= TempMax(tasks'[id].dev) * 10
       /\ \A id \in DOMAIN tasks :
              (tasks[id].kind = "temperature_action" /\ tasks[id].pc = "read"
                  /\ tasks'[id] # tasks[id])
              => LET d == tasks[id].dev
                     reported == remote[EntityId(d)].temperature
                 IN  \E current \in {IF reported = Undef \/ reported = 0 THEN 200 ELSE reported,
                                      200} :
                        tasks'[id].call.value
                            = Clamp(TempMin(d) * 10, TempMax(d) * 10,
                                    current + tasks[id].updateData)]_vars

\* C19 witness: position 0.5 on living_room_thermostat ([16, 30]) is being
\* sent as 23.0 degrees.
C19_Witness ==
    \E id \in DOMAIN tasks :
        /\ tasks[id].kind = "apply"
        /\ tasks[id].key = Key("living_room_thermostat", "temperature")
        /\ tasks[id].call.service = "set_temperature"
        /\ tasks[id].call.value = 230

\* C19, clamping: 'temp up' at a reported 35.0 degrees sends 30.0, and
\* 'temp down' at a reported 10.0 degrees sends 16.0.
C19_WitnessClampHigh ==
    \E id \in DOMAIN tasks :
        /\ tasks[id].kind = "temperature_action"
        /\ tasks[id].updateData = TEMPERATURE_STEP
        /\ remote["climate.living_room"].temperature = 350
        /\ tasks[id].call.value = 300

C19_WitnessClampLow ==
    \E id \in DOMAIN tasks :
        /\ tasks[id].kind = "temperature_action"
        /\ tasks[id].dev = "living_room_thermostat"
        /\ tasks[id].updateData = -TEMPERATURE_STEP
        /\ remote["climate.living_room"].temperature = 100
        /\ tasks[id].call.value = 160


\* ======================================== colour temperature specification
\* What the strip may report as color_temp when the script starts: nothing,
\* the ends and the middle of the range, and values outside it.
MiredReports == {Undef, 100, MIREDS_MIN, 327, MIREDS_MAX, 600}

\* Dial positions of the colour temperature channel.
ColorTempInputs == {0, 3, 250, 500, Scale}

InitColorTemp ==
    \E m \in MiredReports :
        LET st == [InitRemote["light.kitchen_color_strip"] EXCEPT !.color_temp = m]
        IN  /\ now = StartTime
            /\ lastPlaybackCommandTime = 0
            /\ pendingUpdates = EmptyMap
            /\ expectedStates = EmptyMap
            /\ colorMemory = InitMemory(TRUE)
            /\ timers = EmptyMap
            /\ nextTimeoutId = 1
            /\ nextHandlerId = 1
            /\ tasks = EmptyMap
            /\ remote = [InitRemote EXCEPT !["light.kitchen_color_strip"] = st]
            /\ virtual = [InitVirtual(TRUE) EXCEPT
                             !["kitchen_color_light"] = ReadBackLight("kitchen_color_light", st)]
            /\ calls = <<>>
            /\ applied = <<>>
            /\ localWrites = <<>>
            /\ lastFired = Undef
            /\ lastFiredBy = "none"
            /\ lastEvent = Event("none", "none", "none")
            /\ lastColor = NoColor

ColorTempTwist ==
    /\ nextTimeoutId <= MaxColorTwists
    /\ \E c \in ColorTempInputs :
           virtualDeviceUpdate("kitchen_color_light", "Light",
                               LightValues(Undef, Undef, Undef, c))

NextColorTemp ==
    \/ ColorTempTwist
    \/ \E id \in DOMAIN timers : TimerFire(id)
    \/ \E id \in DOMAIN tasks, ok \in BOOLEAN : DebouncedServiceResponse(id, ok)
    \/ \E id \in DOMAIN tasks : SettleDone(id)
    \/ \E id \in DOMAIN tasks, ok \in BOOLEAN : ReadBackResponse(id, ok)
    \/ Tick

SpecColorTemp == InitColorTemp /\ [][NextColorTemp]_vars

\* ------------------------------------------------------------------- C20
\* clamp((m - 154) / 346, 0, 1) to the nearest thousandth, for mireds m.
NormalizedMireds(m) ==
    IF m <= 154 THEN 0 ELSE IF m >= 500 THEN Scale ELSE RoundDiv((m - 154) * Scale, 346)

\* The colour temperature applies whose read-back ends in this step.
ColorTempReadBacks ==
    {id \in DOMAIN tasks \ DOMAIN tasks' :
        tasks[id].pc = "readback" /\ tasks[id].key[2] = "colortemp"}

\* C20: an input c in [0, 1] is sent as round(154 + 346 c) mireds (0 as 154,
\* 1 as 500, always within 154..500); a read-back of m mireds writes
\* clamp((m - 154) / 346, 0, 1); and applying c and reading back the mireds
\* that were sent returns c to within the rounding of the mired value
\* (0.5/346, plus the half thousandth of the representation).
C20_ColorTemperatureLinear ==
    [][/\ ColorTemperatureToMireds(0) = 154
       /\ ColorTemperatureToMireds(Scale) = 500
       /\ \A id \in DOMAIN tasks' :
              tasks'[id].call.field = "color_temp"
                 => /\ tasks'[id].call.value
                          = RoundDiv(154 * Scale + 346 * tasks'[id].updateData, Scale)
                    /\ tasks'[id].call.value \in 154..500
       /\ (tasks = EmptyMap /\ calls = <<>>)
             => virtual["kitchen_color_light"].colorTemperature
                   = LET m == remote["light.kitchen_color_strip"].color_temp
                     IN  IF m = Undef THEN Scale \div 2 ELSE NormalizedMireds(m)
       /\ \A id \in ColorTempReadBacks :
              LET d == tasks[id].dev
                  c == tasks[id].updateData
                  m == remote[EntityId(d)].color_temp
              IN  \/ virtual'[d] = virtual[d]
                  \/ /\ virtual'[d].colorTemperature = NormalizedMireds(m)
                     /\ m = ColorTemperatureToMireds(c)
                            => Abs(virtual'[d].colorTemperature - c) <= 2]_vars

\* C20 witness: 0.25 was sent as 241 mireds and read back as 0.251.
C20_Witness ==
    /\ Len(applied) = 1
    /\ applied[1].key = Key("kitchen_color_light", "colortemp")
    /\ applied[1].updateData = 250
    /\ tasks = EmptyMap
    /\ remote["light.kitchen_color_strip"].color_temp = 241
    /\ virtual["kitchen_color_light"].colorTemperature = 251

\* C20, ends of the range: 1 was sent as 500 and read back as 1 on a strip
\* that had reported 100 mireds (shown as 0).
C20_WitnessEnds ==
    /\ Len(applied) = 1
    /\ applied[1].updateData = Scale
    /\ tasks = EmptyMap
    /\ remote["light.kitchen_color_strip"].color_temp = 500
    /\ virtual["kitchen_color_light"].colorTemperature = Scale

\* C20, clamping: a strip reporting 600 mireds is shown at 1.
C20_WitnessClamp ==
    /\ remote["light.kitchen_color_strip"].color_temp = 600
    /\ virtual["kitchen_color_light"].colorTemperature = Scale
    /\ nextTimeoutId > 1


\* ===================================================== blind specification
\* What the cover may report when the script starts: <<state, current_position>>.
CoverReports == {<<"open", Undef>>, <<"closed", Undef>>, <<"opening", Undef>>,
                 <<"closed", 0>>, <<"open", 5>>, <<"open", 80>>, <<"open", 95>>,
                 <<"open", 100>>}

\* Dial positions of a Blind virtual device.
BlindInputs == {0, 4, 6, 500, 994, Scale}

InitBlind ==
    \E rep \in CoverReports :
        LET st == [EntityState(rep[1], Undef, Undef, <<>>) EXCEPT !.current_position = rep[2]]
        IN  /\ now = StartTime
            /\ lastPlaybackCommandTime = 0
            /\ pendingUpdates = EmptyMap
            /\ expectedStates = EmptyMap
            /\ colorMemory = InitMemory(TRUE)
            /\ timers = EmptyMap
            /\ nextTimeoutId = 1
            /\ nextHandlerId = 1
            /\ tasks = EmptyMap
            /\ remote = [InitRemote EXCEPT !["cover.living_room_blinds"] = st]
            /\ virtual = [InitVirtual(TRUE) EXCEPT
                             !["living_room_blinds"] = BlindState(CurrentBlindPosition(st))]
            /\ calls = <<>>
            /\ applied = <<>>
            /\ localWrites = <<>>
            /\ lastFired = Undef
            /\ lastFiredBy = "none"
            /\ lastEvent = Event("none", "none", "none")
            /\ lastColor = NoColor

BlindTwist ==
    /\ nextTimeoutId <= MaxTwists
    /\ \E p \in BlindInputs :
           virtualDeviceUpdate("living_room_blinds", "Blind", BlindValues(p))

BlindAction ==
    \E a \in {"position up", "position down"} : actionMessage("living_room_blinds", a)

NextBlind ==
    \/ BlindTwist
    \/ BlindAction
    \/ \E id \in DOMAIN timers : TimerFire(id)
    \/ \E id \in DOMAIN tasks, ok \in BOOLEAN : DebouncedServiceResponse(id, ok)
    \/ \E id \in DOMAIN tasks, ok \in BOOLEAN : BlindActionStateResponse(id, ok)
    \/ \E id \in DOMAIN tasks, ok \in BOOLEAN : ActionServiceResponse(id, ok)
    \/ \E id \in DOMAIN tasks, ok \in BOOLEAN : ReadBackResponse(id, ok)
    \/ Tick

SpecBlind == InitBlind /\ [][NextBlind]_vars

\* ------------------------------------------------------------------- C21
\* The blind actions that issue their set_cover_position in this step.
BlindActionsCalling ==
    {id \in DOMAIN tasks \cap DOMAIN tasks' :
        /\ tasks[id].kind = "blind_action"
        /\ tasks[id].pc = "read"
        /\ tasks'[id].pc = "svc"}

\* C21: every position sent by set_cover_position is an integer in 0..100; a
\* twist position p is sent as round(p * 100); 'position up' / 'position down'
\* send the cover's current position + 10 / - 10, clamped to 0..100.
C21_PositionSentFromCurrent ==
    [][/\ \A id \in DOMAIN tasks' :
              tasks'[id].call.service = "set_cover_position"
                 => tasks'[id].call.value \in 0..100
       /\ Len(calls') > Len(calls) /\ calls'[Len(calls')].key[2] = "position"
             => /\ calls'[Len(calls')].updateData
                      \in {RoundDiv(p * 100, Scale) : p \in BlindInputs}
                /\ virtual'["living_room_blinds"].position = calls'[Len(calls')].updateData
       /\ \A id \in DOMAIN tasks' \ DOMAIN tasks :
              tasks'[id].key[2] = "position"
                 => tasks'[id].call.value = tasks'[id].updateData
       /\ \A id \in BlindActionsCalling :
              tasks'[id].call.value
                 = Clamp(0, 100, CurrentBlindPosition(remote[EntityId(tasks[id].dev)])
                                    + tasks[id].updateData)]_vars

\* C21 case: the cover is at 80, the state read of 'position up' has failed,
\* and position 10 is on its way to the cover.
C21_FailedReadSendsTen ==
    /\ remote["cover.living_room_blinds"].current_position = 80
    /\ \E id \in DOMAIN tasks :
           /\ tasks[id].kind = "blind_action"
           /\ tasks[id].updateData = BLIND_STEP
           /\ tasks[id].call.service = "set_cover_position"
           /\ tasks[id].call.value = 10


\* ================================================= dispatch specification
\* Action messages (already lower-cased and split at the spaces) that name no
\* configured device, no action of ACTION_HANDLERS, or have a single part.
\* <<"livingroom_tv", "", "volume", "up">> is "livingroom_tv  volume up".
BadMessages ==
    {<<"volume">>, <<"livingroom_tv">>, <<"">>,
     <<"garage_door", "volume", "up">>, <<"garage_door", "fly">>,
     <<"livingroom_tv", "fly">>, <<"livingroom_tv", "brightness", "sideways">>,
     <<"livingroom_tv", "volume">>, <<"livingroom_tv", "", "volume", "up">>}

\* Device ids that HA_CONFIG does not hold.
UnknownDevices == {"garage_door"}

BadMessage == \E parts \in BadMessages : actionMessageReceived(parts)

UnknownUpdate ==
    \E d \in UnknownDevices :
        \/ virtualDeviceUpdate(d, "Speaker", SpeakerValues(80))
        \/ virtualDeviceUpdate(d, "Light", LightValues(500, 667, 600, 250))
        \/ virtualDeviceUpdate(d, "Blind", BlindValues(500))

NextDispatch ==
    \/ BadMessage
    \/ UnknownUpdate
    \* matched events next to them: one colour temperature update of the
    \* strip and pause gestures of the playback dial
    \/ /\ nextTimeoutId = 1
       /\ virtualDeviceUpdate("kitchen_color_light", "Light",
                              LightValues(Undef, Undef, Undef, 250))
    \/ virtualDeviceUpdate("playback_control", "Speaker", SpeakerValues(300))
    \/ \E id \in DOMAIN timers : TimerFire(id)
    \/ \E id \in DOMAIN tasks, ok \in BOOLEAN : DebouncedServiceResponse(id, ok)
    \/ \E id \in DOMAIN tasks : SettleDone(id)
    \/ \E id \in DOMAIN tasks, ok \in BOOLEAN : ReadBackResponse(id, ok)
    \/ \E id \in DOMAIN tasks, ok \in BOOLEAN : GestureServiceResponse(id, ok)
    \/ Tick

SpecDispatch == Init /\ [][NextDispatch]_vars

\* ------------------------------------------------------------------- C22
\* C22: an action message with an unknown device id, an action outside the
\* vocabulary or fewer than two parts, and a continuous update for an unknown
\* device id, start no remote read or service call, write no local state and
\* leave the pending-update table, the colour memory and the cooldown
\* timestamp (and every other part of the program state) as they were.
C22_UnmatchedEventIsNoOp ==
    [][(BadMessage \/ UnknownUpdate)
          => UNCHANGED <<tasks, timers, remote, virtual, pendingUpdates, expectedStates,
                         colorMemory, lastPlaybackCommandTime, nextTimeoutId, nextHandlerId,
                         calls, applied, localWrites>>]_vars

\* C22 witness: an unmatched event was handled while a request was in
\* flight, an update was pending and a cooldown had started.
C22_Witness ==
    /\ lastEvent.kind = "ignored"
    /\ tasks # EmptyMap
    /\ pendingUpdates # EmptyMap
    /\ lastPlaybackCommandTime > 0
    /\ DOMAIN colorMemory # {}

\* C22, unknown device: the last event named a device that is not configured.
C22_WitnessUnknownDevice ==
    /\ lastEvent.kind = "ignored"
    /\ lastEvent.dev \in UnknownDevices
    /\ tasks # EmptyMap


\* ================================================== request specification
NextRequest ==
    \/ \E v \in {30, 70} :
           callHAServiceDirect(ServiceCall("livingroom_tv", "media_player", "volume_set",
                                           "volume_level", v))
    \/ \E id \in DOMAIN tasks : RequestTimeout(id)
    \/ \E id \in DOMAIN tasks, response \in Responses : RequestCallback(id, response)
    \/ /\ now < StartTime + 2 * REQUEST_TIMEOUT
       /\ Advance(REQUEST_TIMEOUT \div 2)

SpecRequest == Init /\ [][NextRequest]_vars

\* ------------------------------------------------------------------- C23
\* C23: a service call succeeds only when the remote answered with a 2xx
\* status; a timeout, a transport error, a non-2xx status and a response
\* without a status code each reject it; and a call that has settled stays
\* as it settled.
C23_SuccessOnly2xx ==
    [][\A id \in DOMAIN tasks' :
          tasks'[id].kind = "request"
             => /\ tasks'[id].pc = "resolved"
                    => /\ tasks'[id].updateData.arrived
                       /\ ~tasks'[id].updateData.error
                       /\ tasks'[id].updateData.status \in 200..299
                /\ tasks'[id].updateData.arrived => tasks'[id].pc # "pending"
                /\ tasks'[id].wake = Undef => tasks'[id].pc # "pending"
                /\ id \in DOMAIN tasks /\ tasks[id].pc # "pending"
                    => tasks'[id].pc = tasks[id].pc]_vars

\* C23 case: a response without a status code has resolved the call.
C23_NoStatusResolved ==
    \E id \in DOMAIN tasks :
        /\ tasks[id].kind = "request"
        /\ tasks[id].pc = "resolved"
        /\ tasks[id].updateData.arrived
        /\ tasks[id].updateData.status = Undef


\* ========================================= missing-attribute specification
\* The television has been switched off since the script started and reports
\* no volume_level any more; the Speaker still shows the volume read at start.
InitMissing ==
    /\ now = StartTime
    /\ lastPlaybackCommandTime = 0
    /\ pendingUpdates = EmptyMap
    /\ expectedStates = EmptyMap
    /\ colorMemory = InitMemory(TRUE)
    /\ timers = EmptyMap
    /\ nextTimeoutId = 1
    /\ nextHandlerId = 1
    /\ tasks = EmptyMap
    /\ remote = [InitRemote EXCEPT !["media_player.living_room_tv"] =
                                       EntityState("off", Undef, Undef, <<>>)]
    /\ virtual = InitVirtual(TRUE)
    /\ calls = <<>>
    /\ applied = <<>>
    /\ localWrites = <<>>
    /\ lastFired = Undef
    /\ lastFiredBy = "none"
    /\ lastEvent = Event("none", "none", "none")
    /\ lastColor = NoColor

SpecMissing == InitMissing /\ [][NextVolume]_vars

\* ------------------------------------------------------------------- C24
\* C24: when the state read lacks volume_level, no volume_set is issued with
\* an undefined or non-numeric level and no Speaker state is written with an
\* undefined or non-numeric volume.
C24_MissingVolumeHandled ==
    [][/\ \A id \in DOMAIN tasks' :
              tasks'[id].call.service = "volume_set" => tasks'[id].call.value \in 0..100
       /\ \A d \in MediaDevices :
              virtual'[d] # virtual[d] => virtual'[d].volume \in 0..100]_vars

\* C24 case: the television reports no volume and a volume_set without a
\* numeric level is on its way to it.
C24_UndefinedLevelSent ==
    /\ remote["media_player.living_room_tv"].volume_level = Undef
    /\ \E id \in DOMAIN tasks :
           /\ tasks[id].kind = "volume_action"
           /\ tasks[id].call.service = "volume_set"
           /\ tasks[id].call.value = Undef

\* C24 case, read-back: the Speaker of the television shows no numeric volume.
C24_UndefinedVolumeShown ==
    /\ virtual["livingroom_tv"].volume = Undef
    /\ lastEvent.kind = "volume_action"


\* ------------------------------------------------------------------- C25
\* A remote call of handler invocation id fails in this step.
FailureOf(id) ==
    \/ DebouncedServiceResponse(id, FALSE)
    \/ ReadBackResponse(id, FALSE)
    \/ GestureStateResponse(id, FALSE)
    \/ GestureServiceResponse(id, FALSE)
    \/ VolumeActionStateResponse(id, FALSE)
    \/ ActionServiceResponse(id, FALSE)
    \/ ColorStateResponse(id, FALSE)
    \/ BrightnessActionStateResponse(id, FALSE)
    \/ TemperatureActionStateResponse(id, FALSE)
    \/ BlindActionStateResponse(id, FALSE)

\* C25: no handler lets a failure escape.  When a remote call of a handler
\* fails, that invocation alone ends (or, after a state read that its helper
\* caught, goes on to its service call); every other suspended handler and every
\* armed timer is untouched, the remote and the colour memory are as before,
\* and what later events read is what the handler leaves when it succeeds:
\* a debounced apply has removed the entries of its key, a gesture has stored
\* its arrival time as the cooldown timestamp and re-centred the dial, an
\* action has changed nothing.
C25_FailureIsIsolated ==
    [][\A id \in DOMAIN tasks :
          FailureOf(id)
             => /\ \/ id \notin DOMAIN tasks'
                   \/ tasks[id].pc = "read" /\ tasks'[id].pc = "svc"
                /\ \A j \in DOMAIN tasks \ {id} : j \in DOMAIN tasks' /\ tasks'[j] = tasks[j]
                /\ DOMAIN tasks' \subseteq DOMAIN tasks
                /\ UNCHANGED <<timers, remote, colorMemory, nextTimeoutId, nextHandlerId, now>>
                /\ IF tasks[id].kind = "apply"
                   THEN /\ pendingUpdates' = MapDelete(pendingUpdates, tasks[id].key)
                        /\ expectedStates' = MapDelete(expectedStates, tasks[id].key)
                        /\ UNCHANGED <<lastPlaybackCommandTime, virtual>>
                   ELSE IF tasks[id].kind = "gesture"
                   THEN /\ lastPlaybackCommandTime' = tasks[id].currentTime
                        /\ virtual' = [virtual EXCEPT ![tasks[id].dev] = SpeakerState(50)]
                        /\ UNCHANGED <<pendingUpdates, expectedStates>>
                   ELSE UNCHANGED <<pendingUpdates, expectedStates, lastPlaybackCommandTime,
                                    virtual>>]_vars

\* C25 witness: a gesture has failed while another handler was suspended,
\* and that handler is still there.
C25_Witness ==
    /\ lastEvent = Event("playback_done", "playback_control", "failed")
    /\ tasks # EmptyMap

\* ------------------------------------------------------------------- C26
\* The applies of fired debounce timers that are awaiting the remote.
AppliesInFlight == {id \in DOMAIN tasks : tasks[id].kind = "apply"}

\* C26: while the apply of a fired timer is awaiting the remote, the pending
\* table holds no entry for its key, unless a newer call has installed one.
C26_EntryRemovedBeforeApply ==
    \A id \in AppliesInFlight :
        \/ tasks[id].key \notin DOMAIN pendingUpdates
        \/ pendingUpdates[tasks[id].key].timeoutId > id[2]

\* C26, the case: an apply is awaiting the remote and the pending table still
\* holds the entry of the very timer that started it.
C26_OwnEntryDuringApply ==
    \E id \in AppliesInFlight :
        /\ tasks[id].key \in DOMAIN pendingUpdates
        /\ pendingUpdates[tasks[id].key].timeoutId = id[2]

\* ------------------------------------------------------------------- C27
\* C27: when the apply of a fired timer completes while the tables hold an
\* entry that a later call installed for the same key, that entry and its
\* expected state are still there afterwards.
C27_CompletionKeepsNewerEntry ==
    [][\A id \in AppliesInFlight :
          /\ id \notin DOMAIN tasks'
          /\ tasks[id].key \in DOMAIN pendingUpdates
          /\ pendingUpdates[tasks[id].key].timeoutId > id[2]
          => /\ tasks[id].key \in DOMAIN pendingUpdates'
             /\ pendingUpdates'[tasks[id].key] = pendingUpdates[tasks[id].key]
             /\ tasks[id].key \in DOMAIN expectedStates'
             /\ expectedStates'[tasks[id].key] = expectedStates[tasks[id].key]]_vars

\* C27, the case: a timer is armed for a key whose pending entry is gone, so
\* the next call on the key has nothing to cancel.
C27_ArmedTimerWithoutEntry ==
    \E i \in DOMAIN timers : timers[i].key \notin DOMAIN pendingUpdates

\* ------------------------------------------------------------------- C28
\* A step of the apply `id` itself: one of its awaited responses arrives or
\* its settle delay ends.
StepOfApply(id) ==
    \/ \E ok \in BOOLEAN : DebouncedServiceResponse(id, ok)
    \/ \E ok \in BOOLEAN : ReadBackResponse(id, ok)
    \/ \E ok \in BOOLEAN : ColorStateResponse(id, ok)
    \/ SettleDone(id)

\* C28: an apply whose timer has fired is never aborted: it is changed or
\* ended only by its own responses; a later call on its key, a later timer of
\* its key and the passing of time leave it as it is.
C28_FiredApplyNotAborted ==
    [][\A id \in AppliesInFlight :
          /\ (id \notin DOMAIN tasks' \/ tasks'[id] # tasks[id]) => StepOfApply(id)
          /\ Len(calls') > Len(calls) => id \in DOMAIN tasks' /\ tasks'[id] = tasks[id]]_vars

\* C28 witness: two applies for the same key are awaiting the remote at once,
\* the second started by the timer of a call made after the first timer fired.
C28_Witness ==
    \E i, j \in AppliesInFlight :
        /\ i[2] < j[2]
        /\ tasks[i].key = tasks[j].key
        /\ \E c \in 1..Len(calls) : calls[c].timeoutId = j[2] /\ calls[c].key = tasks[i].key

\* ===================================== debounce specification, with progress
\* Time goes on to the deadline of an armed timer, however late it is.
TimePasses ==
    /\ \E i \in DOMAIN timers : timers[i].deadline > now
    /\ Advance(TimeStep)

NextDebounceLive ==
    \/ LightTwist
    \/ \E id \in DOMAIN timers : TimerFire(id)
    \/ \E id \in DOMAIN tasks, ok \in BOOLEAN : DebouncedServiceResponse(id, ok)
    \/ \E id \in DOMAIN tasks, ok \in BOOLEAN : ReadBackResponse(id, ok)
    \/ Tick
    \/ TimePasses

\* The event loop runs every due timer callback; time reaches every deadline;
\* every request settles: a service call comes back or is rejected by its
\* timeout, a state read comes back or fails.
DebounceFairness ==
    /\ WF_vars(TimePasses)
    /\ \A i \in 1..MaxTimeouts :
          /\ WF_vars(TimerFire(i))
          /\ WF_vars(\E ok \in BOOLEAN : DebouncedServiceResponse(TimerTask(i), ok))
          /\ WF_vars(\E ok \in BOOLEAN : ReadBackResponse(TimerTask(i), ok))

SpecDebounceLive == Init /\ [][NextDebounceLive]_vars /\ DebounceFairness

\* ------------------------------------------------------------------- C29
\* Nothing of the debounce machinery is left.
DebounceTablesEmpty ==
    /\ pendingUpdates = EmptyMap
    /\ expectedStates = EmptyMap
    /\ timers = EmptyMap

\* C29: once controller events have stopped and every remote call has
\* settled, the pending-update table and the expected-state table are empty
\* and no debounce timer is armed, and it stays so.
C29_PendingEventuallyDestroyed == <>[]DebounceTablesEmpty

\* C29, the applies: every apply that a fired timer started ends.
C29_AppliesEnd == <>[](AppliesInFlight = {})

\* C29 witness: all the calls the bounds allow were made, every timer that
\* was left armed has fired, two applies were started and have settled, and
\* nothing is left.
C29_Witness ==
    /\ Len(calls) = MaxTimeouts
    /\ Len(applied) >= 2
    /\ AppliesInFlight = {}
    /\ DebounceTablesEmpty

\* ------------------------------------------------------------------- C30
\* In this step the invocation `id` sends a volume_set request.
VolumeSetIssued(id) ==
    /\ id \in DOMAIN tasks'
    /\ tasks'[id].call.service = "volume_set"
    /\ id \notin DOMAIN tasks \/ tasks[id].call # tasks'[id].call

\* C30: every volume_set request, whether a debounce timer sends it or a
\* 'volume up'/'volume down' action sends it after its state read, is sent
\* at a time when now - lastPlaybackCommandTime >= PLAYBACK_COOLDOWN_MS.
C30_NoVolumeSetWhileBlocked ==
    [][\A id \in DOMAIN tasks' :
          VolumeSetIssued(id) => now - lastPlaybackCommandTime >= PLAYBACK_COOLDOWN_MS]_vars

\* C30, the case: a volume_set request is awaiting the remote inside the
\* cooldown window of a playback command.
C30_VolumeSetInsideWindow ==
    \E id \in DOMAIN tasks :
        /\ tasks[id].call.service = "volume_set"
        /\ now - lastPlaybackCommandTime < PLAYBACK_COOLDOWN_MS

\* ------------------------------------------------------------------- C31
\* The state read of the relative-adjust action `id` fails in this step.
AdjustReadFails(id) ==
    \/ VolumeActionStateResponse(id, FALSE)
    \/ BrightnessActionStateResponse(id, FALSE)
    \/ TemperatureActionStateResponse(id, FALSE)
    \/ BlindActionStateResponse(id, FALSE)

\* C31: a 'volume', 'brightness', 'temp' or 'position' up/down action whose
\* read of the current remote state fails ends there and makes no service
\* call.
C31_FailedReadAborts ==
    [][\A id \in DOMAIN tasks :
          AdjustReadFails(id) => id \notin DOMAIN tasks']_vars

\* C31, the case: 'brightness up' is awaiting turn_on with brightness 25,
\* computed from the fallback 0 of a failed read, for a light that is on and
\* brighter than nothing.
C31_CallAfterFailedRead ==
    \E id \in DOMAIN tasks :
        /\ tasks[id].kind = "brightness_action"
        /\ tasks[id].pc = "svc"
        /\ tasks[id].call.service = "turn_on"
        /\ tasks[id].call.value = 25
        /\ CurrentBrightness(remote[tasks[id].call.entity]) > 0

\* ====================================== immediate write that may throw
\* Volume twists of the television on a host whose virtualDeviceUpdateState
\* may throw; no playback command, so the gate is open.
ThrowInputs == {300, 700}

HostTwist ==
    \E v \in ThrowInputs, hostThrows \in BOOLEAN :
        handleMediaDeviceUpdateOnHost("livingroom_tv", SpeakerValues(v), hostThrows)

NextHost ==
    \/ HostTwist
    \/ \E id \in DOMAIN timers : TimerFire(id)
    \/ \E id \in DOMAIN tasks, ok \in BOOLEAN : DebouncedServiceResponse(id, ok)
    \/ \E id \in DOMAIN tasks, ok \in BOOLEAN : ReadBackResponse(id, ok)
    \/ Tick

SpecHost == Init /\ [][NextHost]_vars

\* ------------------------------------------------------------------- C32
\* The debounce call of this step, when there is one.
CallMade == Len(calls') = Len(calls) + 1
NewCall == calls'[Len(calls')]
TimesApplied(timeoutId) ==
    Cardinality({i \in 1..Len(applied) : applied[i].timeoutId = timeoutId})

\* C32: when the immediate local write of a debounce call throws, the call
\* completes all the same: the handler ends normally, the pending entry and
\* the expected state of the key hold the call's value and its timer is
\* armed for DEBOUNCE_DELAY later; that timer goes away only by firing, which
\* invokes the update function with the call's value, or by a later call on
\* the key; and the update function is invoked at most once for it.
C32_LocalWriteFailureCaught ==
    /\ [][CallMade /\ NewCall.threw
            => /\ lastEvent'.outcome = "passed"
               /\ NewCall.key \in DOMAIN pendingUpdates'
               /\ pendingUpdates'[NewCall.key]
                      = [timeoutId |-> NewCall.timeoutId, updateData |-> NewCall.updateData]
               /\ NewCall.key \in DOMAIN expectedStates'
               /\ expectedStates'[NewCall.key] = NewCall.updateData
               /\ NewCall.timeoutId \in DOMAIN timers'
               /\ timers'[NewCall.timeoutId]
                      = [key |-> NewCall.key, updateData |-> NewCall.updateData,
                         deadline |-> now + DEBOUNCE_DELAY]]_vars
    /\ [][\A c \in 1..Len(calls) :
             calls[c].threw /\ calls[c].timeoutId \in DOMAIN timers
                            /\ calls[c].timeoutId \notin DOMAIN timers'
             => \/ /\ TimesApplied(calls[c].timeoutId)' = 1
                   /\ applied'[Len(applied')].updateData = calls[c].updateData
                   /\ applied'[Len(applied')].timeoutId = calls[c].timeoutId
                \/ /\ CallMade
                   /\ NewCall.key = calls[c].key]_vars
    /\ [](\A c \in 1..Len(calls) : calls[c].threw => TimesApplied(calls[c].timeoutId) <= 1)

\* C32 witness: the update function has been invoked with the value of a call
\* whose immediate write threw, and the local state never took that value.
C32_Witness ==
    \E c \in 1..Len(calls), a \in 1..Len(applied) :
        /\ calls[c].threw
        /\ applied[a].timeoutId = calls[c].timeoutId
        /\ applied[a].updateData = calls[c].updateData
        /\ \A w \in 1..Len(localWrites) : localWrites[w].updateData # calls[c].updateData

\* ===================================================== hue specification
\* Twists of the colour strip over the whole hue strip, every one with a
\* saturation of 60 %: hue 0, 0.5, 0.998, 0.999 and 1.
HueInputs == {0, 500, 998, 999, Scale}

HueTwist ==
    /\ nextTimeoutId <= MaxColorTwists
    /\ \E h \in HueInputs :
           virtualDeviceUpdate("kitchen_color_light", "Light", LightValues(Undef, h, 600, Undef))

NextHue ==
    \/ HueTwist
    \/ \E id \in DOMAIN timers : TimerFire(id)
    \/ \E id \in DOMAIN tasks, ok \in BOOLEAN : ColorStateResponse(id, ok)
    \/ \E id \in DOMAIN tasks, ok \in BOOLEAN : DebouncedServiceResponse(id, ok)
    \/ \E id \in DOMAIN tasks : SettleDone(id)
    \/ \E id \in DOMAIN tasks, ok \in BOOLEAN : ReadBackResponse(id, ok)
    \/ Tick

SpecHue == InitColor /\ [][NextHue]_vars

\* ------------------------------------------------------------------- C33
\* Every colour the remote holds, and so may report, has hue in [0, 360) and
\* saturation in [0, 100].
ReportsInRange ==
    \A e \in LightEntities :
        remote[e].hs_color # <<>>
            => /\ 0 <= remote[e].hs_color[1] /\ remote[e].hs_color[1] < 360
               /\ 0 <= remote[e].hs_color[2] /\ remote[e].hs_color[2] <= 100

\* C33: as long as the remote reports colours in range, every remembered
\* colour has hue in [0, 360) and saturation in [0, 100].
C33_RememberedColourInRange ==
    ReportsInRange
        => \A d \in DOMAIN colorMemory :
               /\ 0 <= colorMemory[d].hue /\ colorMemory[d].hue < 360
               /\ 0 <= colorMemory[d].saturation /\ colorMemory[d].saturation <= 100

\* C33, the case: hue 360 is remembered while the remote holds only colours
\* in range.
C33_Hue360Remembered ==
    /\ ReportsInRange
    /\ \E d \in DOMAIN colorMemory : colorMemory[d].hue = 360

\* ==================================================== dial specification
\* The host keeps the state of the playback dial: the user turns it (down,
\* to the edge of the dead zone, up), and the update the program then gets
\* carries the position the dial has.
DialPositions == {30, 60, 80}

DialTurn ==
    /\ \E v \in DialPositions :
           virtual' = [virtual EXCEPT !["playback_control"] = SpeakerState(v)]
    /\ UNCHANGED <<now, lastPlaybackCommandTime, pendingUpdates, expectedStates, colorMemory,
                   timers, nextTimeoutId, nextHandlerId, tasks, remote, histVars>>

DialUpdate ==
    virtualDeviceUpdate("playback_control", "Speaker",
                        SpeakerValues(virtual["playback_control"].volume * (Scale \div 100)))

NextDial ==
    \/ DialTurn
    \/ DialUpdate
    \/ \E id \in DOMAIN tasks, ok \in BOOLEAN : GestureStateResponse(id, ok)
    \/ \E id \in DOMAIN tasks, ok \in BOOLEAN : GestureServiceResponse(id, ok)
    \/ TickBusy
    \/ Idle

SpecDial == Init /\ [][NextDial]_vars

\* ------------------------------------------------------------------- C34
\* An invocation of handlePlaybackDeviceUpdate for device d ends in this
\* step: at once (dead zone, cooldown) or after its command has settled.
PlaybackUpdateEnds(d) ==
    \/ /\ \E v \in PlaybackInputs \cup {virtual[d].volume * (Scale \div 100)} :
             handlePlaybackDeviceUpdate(d, SpeakerValues(v))
       /\ tasks' = tasks
    \/ \E id \in DOMAIN tasks :
          /\ tasks[id].kind = "gesture"
          /\ tasks[id].dev = d
          /\ id \notin DOMAIN tasks'

\* C34: every update delivered to a playback device ends with the local
\* Speaker state of the device at the centre, volume 0.5: inside the dead
\* zone, rejected by the cooldown, and after a command, succeeded or failed.
C34_DialRecentred ==
    [][\A d \in PlaybackDevices :
          PlaybackUpdateEnds(d) => virtual'[d] = SpeakerState(50)]_vars

\* C34 witness: a gesture was rejected by the cooldown with the dial turned
\* down, and the dial is at the centre.
C34_Witness ==
    /\ lastEvent = Event("playback_twist", "playback_control", "blocked")
    /\ virtual["playback_control"] = SpeakerState(50)
    /\ now - lastPlaybackCommandTime < PLAYBACK_COOLDOWN_MS

\* C34 witness, failure: a command has failed and the dial is at the centre.
C34_WitnessFailed ==
    /\ lastEvent = Event("playback_done", "playback_control", "failed")
    /\ virtual["playback_control"] = SpeakerState(50)

\* ================================================ power-off specification
\* Brightness twists of the living-room light, which is on, followed by
\* twists to zero: every brightness update is requested before the first
\* zero-brightness update arrives (no handler has suspended yet).
EarlyTwist ==
    /\ nextHandlerId = 1
    /\ LightTwist

ZeroTwist ==
    virtualDeviceUpdate("living_room_light", "Light", LightValues(0, Undef, Undef, Undef))

NextPowerOff ==
    \/ EarlyTwist
    \/ ZeroTwist
    \/ \E id \in DOMAIN timers : TimerFire(id)
    \/ \E id \in DOMAIN tasks, ok \in BOOLEAN : DebouncedServiceResponse(id, ok)
    \/ \E id \in DOMAIN tasks, ok \in BOOLEAN : ActionServiceResponse(id, ok)
    \/ \E id \in DOMAIN tasks, ok \in BOOLEAN : ReadBackResponse(id, ok)
    \/ Tick

SpecPowerOff == Init /\ [][NextPowerOff]_vars

\* ------------------------------------------------------------------- C35
\* In this step a debounce timer sends light.turn_on with a brightness for
\* device d.
BrightnessSentByTimer(d) ==
    \E id \in DOMAIN tasks' \ DOMAIN tasks :
        /\ tasks'[id].kind = "apply"
        /\ tasks'[id].dev = d
        /\ tasks'[id].call.service = "turn_on"
        /\ tasks'[id].call.field = "brightness"

\* C35: where every brightness update precedes the zero-brightness updates,
\* no debounce timer sends turn_on with a brightness once a zero-brightness
\* update has turned the light off.
C35_NoTurnOnAfterPowerOff ==
    [][BrightnessSentByTimer("living_room_light")
          => remote["light.living_room_ceiling"].state # "off"]_vars

\* C35, the case: zero-brightness updates have arrived after every
\* brightness update, nothing is left to run, and the light is on with the
\* brightness of one of those earlier updates.
C35_LightBackOn ==
    /\ nextHandlerId > 1
    /\ tasks = EmptyMap
    /\ timers = EmptyMap
    /\ remote["light.living_room_ceiling"].state = "on"
    /\ \E a \in 1..Len(applied) :
          remote["light.living_room_ceiling"].brightness = applied[a].updateData

\* ------------------------------------------------------------------- C36
\* The value the local state of device d shows on a channel that has an
\* immediate local write.
LocalValue(d, channel) ==
    CASE channel = "volume" -> virtual[d].volume
      [] channel = "brightness" -> virtual[d].brightness
      [] channel = "position" -> virtual[d].position
      [] OTHER -> Undef

\* The keys with an update still to be applied: an entry in the pending
\* table or an armed debounce timer.
PendingKeys == DOMAIN pendingUpdates \cup {timers[i].key : i \in DOMAIN timers}
\* The most recently requested value of a key.
LatestRequested(key) == CallsFor(key)[Len(CallsFor(key))].updateData

\* C36: while an update is pending for a volume, brightness or position key,
\* the local state shows the most recently requested value on that channel.
C36_LocalShowsPending ==
    \A key \in PendingKeys :
        key[2] \in {"volume", "brightness", "position"}
            => LocalValue(key[1], key[2]) = LatestRequested(key)

\* C36, the case: the read-back of an earlier apply has just written the value
\* that apply sent, while the timer of a newer update on the key is armed.
C36_OlderValueShown ==
    \E i \in DOMAIN timers, a \in 1..Len(applied) :
        /\ timers[i].key = applied[a].key
        /\ applied[a].timeoutId < i
        /\ timers[i].key[2] = "brightness"
        /\ applied[a].updateData # timers[i].updateData
        /\ LocalValue(timers[i].key[1], "brightness") = applied[a].updateData
        /\ remote[EntityId(timers[i].key[1])].brightness = applied[a].updateData

\* ------------------------------------------------------------------- C37
\* C37: lastPlaybackCommandTime never decreases.
C37_TimestampMonotonic ==
    [][lastPlaybackCommandTime' >= lastPlaybackCommandTime]_vars

\* C37, the case: the cooldown timestamp is older than the arrival time of a
\* gesture that has already completed, and no gesture is left in flight.
C37_TimestampWentBack ==
    /\ lastPlaybackCommandTime > 0
    /\ lastFired > lastPlaybackCommandTime
    /\ \A id \in DOMAIN tasks : tasks[id].kind # "gesture"

\* ================================================= class specification
\* Continuous updates whose channel type does not fit the device's class, and
\* volume actions addressed to devices that are not media players.
MismatchedUpdates ==
    {<<"living_room_light", "Speaker", SpeakerValues(800)>>,
     <<"playback_control", "Light", LightValues(500, Undef, Undef, Undef)>>,
     <<"living_room_blinds", "Light", LightValues(500, Undef, Undef, Undef)>>,
     <<"livingroom_tv", "Blind", BlindValues(500)>>,
     <<"living_room_thermostat", "Speaker", SpeakerValues(800)>>}
OtherClassDevices == {"living_room_light", "living_room_blinds", "playback_control"}

MismatchedUpdate ==
    \E u \in MismatchedUpdates : virtualDeviceUpdate(u[1], u[2], u[3])

MisaddressedVolume ==
    \E d \in OtherClassDevices, a \in VolumeActions : actionMessage(d, a)

NextClass ==
    \/ MismatchedUpdate
    \/ MisaddressedVolume
    \/ \E id \in DOMAIN tasks, ok \in BOOLEAN : VolumeActionStateResponse(id, ok)
    \/ \E id \in DOMAIN tasks, ok \in BOOLEAN : ActionServiceResponse(id, ok)
    \/ \E id \in DOMAIN tasks, ok \in BOOLEAN : ReadBackResponse(id, ok)
    \/ Tick

SpecClass == Init /\ [][NextClass]_vars

\* ------------------------------------------------------------------- C38
\* C38: a continuous update whose channel type does not fit the device's
\* class starts no handler, arms no timer and writes no local state, and no
\* volume action is ever at work for a device that is not a media player: no
\* state read, no service call, no local write for it.
C38_OnlyMatchingClass ==
    /\ [][MismatchedUpdate
            => UNCHANGED <<tasks, timers, pendingUpdates, expectedStates, remote, virtual>>]_vars
    /\ [](\A id \in DOMAIN tasks :
             tasks[id].kind = "volume_action" => tasks[id].dev \in MediaDevices)
    /\ [][\A d \in Devices \ MediaDevices : virtual'[d] = virtual[d]]_vars

\* C38, the case: a 'volume up' addressed to the light has media_player
\* volume_set in flight for the light's entity, with no numeric level.
C38_VolumeSetForLight ==
    \E id \in DOMAIN tasks :
        /\ tasks[id].dev = "living_room_light"
        /\ tasks[id].call = ServiceCall("living_room_light", "media_player", "volume_set",
                                        "volume_level", Undef)

\* C38, the case: a 'volume up' addressed to the playback dial has changed
\* the television's volume and written it to the dial's local state.
C38_DialShowsTvVolume ==
    /\ remote["media_player.living_room_tv"].volume_level = 50
    /\ virtual["playback_control"] = SpeakerState(50)
    /\ applied = <<>>
    /\ tasks = EmptyMap
    /\ nextHandlerId = 2

\* ------------------------------------------------------------------- C39
\* The keys of the debounce calls made in this step, and every key the
\* debounce state knows.
NewCallKeys == {calls'[i].key : i \in (Len(calls) + 1)..Len(calls')}
KnownKeys ==
    DOMAIN pendingUpdates \cup DOMAIN expectedStates \cup {timers[i].key : i \in DOMAIN timers}

\* C39: a debounce call leaves the pending entry, the expected state and the
\* armed timers of every other key as they are.
C39_KeysIndependent ==
    [][Len(calls') > Len(calls)
          => \A k \in KnownKeys \ NewCallKeys :
                /\ (k \in DOMAIN pendingUpdates) = (k \in DOMAIN pendingUpdates')
                /\ k \in DOMAIN pendingUpdates => pendingUpdates'[k] = pendingUpdates[k]
                /\ (k \in DOMAIN expectedStates) = (k \in DOMAIN expectedStates')
                /\ k \in DOMAIN expectedStates => expectedStates'[k] = expectedStates[k]
                /\ \A i \in DOMAIN timers :
                       timers[i].key = k => i \in DOMAIN timers' /\ timers'[i] = timers[i]]_vars

\* C39 witness: a brightness update and a colour update of the strip, the
\* second made while the timer of the first was armed, have each been applied.
C39_Witness ==
    /\ Len(calls) = 2
    /\ calls[1].key[1] = "kitchen_color_light"
    /\ calls[2].key[1] = "kitchen_color_light"
    /\ {calls[1].key[2], calls[2].key[2]} = {"brightness", "color"}
    /\ Len(applied) = 2
    /\ {applied[1].timeoutId, applied[2].timeoutId} = {1, 2}
    /\ now < StartTime + 2 * DEBOUNCE_DELAY

\* ------------------------------------------------------------------- C40
\* C40: between event-loop turns the pending-update table and the
\* expected-state table hold the same keys, and the expected state of a key is
\* the update data of its pending entry.
C40_TablesAgree ==
    /\ DOMAIN pendingUpdates = DOMAIN expectedStates
    /\ \A k \in DOMAIN pendingUpdates : expectedStates[k] = pendingUpdates[k].updateData

\* C40 witness: a key called twice has its entries in both tables after a
\* timer callback has started to apply.
C40_Witness ==
    /\ pendingUpdates # EmptyMap
    /\ \E k \in DOMAIN pendingUpdates : Len(CallsFor(k)) >= 2
    /\ Len(applied) >= 1


====
